---- MODULE Spec2Model ----
(***************************************************************************)
(* Model of the Impex chunked retrieval engine and of the flat inventory   *)
(* it reads (speasy/core/impex/__init__.py, speasy/core/impex/client.py).  *)
(*                                                                         *)
(* Time is counted in whole days.  A product argument is either a string   *)
(* id, written Str(id), or an index node (a record carrying its uid).      *)
(* One retrieval call is in progress at a time (the engine is synchronous):*)
(* pc is the position of that call, the loop of dl_parameter advances one  *)
(* chunk per step, and the fan-out of get_dataset one child per step.      *)
(* Requests are made with the cache disabled (disable_cache=True).         *)
(***************************************************************************)
EXTENDS Integers, Sequences, FiniteSets, TLC

\* ------------------------------------------------------------------ bounds
\* request instants range over 0..MaxTime (days)
MaxTime == 5
\* max_chunk_size_days ranges over -MaxNegChunkDays..MaxChunkDays
MaxNegChunkDays == 1
MaxChunkDays == 3
\* cap on the iterations of a dl_parameter loop whose chunk duration is not
\* positive (its cursor does not advance, the loop never ends)
MaxFetches == 2

\* polls of GETSTATUS that are counted and logged in one call
MaxPolls == 2

\* the value None
None == [type |-> "NoneType"]

Times == 0..MaxTime

\* ------------------------------------------------------ index nodes (model)
Str(id) == [type |-> "str", value |-> id]

ComponentIndex(uid, name) ==
    [type |-> "ComponentIndex", uid |-> uid, name |-> name]

ParameterIndex(uid, name, is_public, components) ==
    [type |-> "ParameterIndex", uid |-> uid, name |-> name,
     is_public |-> is_public, children |-> components]

\* timeRestriction is <<>> when the node has no such attribute, <<day>> otherwise
DatasetIndex(uid, name, start_date, stop_date, timeRestriction, parameters) ==
    [type |-> "DatasetIndex", uid |-> uid, name |-> name,
     start_date |-> start_date, stop_date |-> stop_date,
     timeRestriction |-> timeRestriction, children |-> parameters]

TimetableIndex(uid, name, is_public) ==
    [type |-> "TimetableIndex", uid |-> uid, name |-> name, is_public |-> is_public]

CatalogIndex(uid, name, is_public) ==
    [type |-> "CatalogIndex", uid |-> uid, name |-> name, is_public |-> is_public]

SpeasyIndex(uid, name) ==
    [type |-> "SpeasyIndex", uid |-> uid, name |-> name]

\* to_xmlid: a string id is returned as it is, an index node gives its uid
to_xmlid(product) ==
    IF product.type = "str" THEN product.value ELSE product.uid

\* ------------------------------------------------------- a small inventory
\* nodes of the inventory below, as the callers hold them
P1 == ParameterIndex("p1", "a", TRUE, <<ComponentIndex("c1x", "x"), ComponentIndex("c1y", "y")>>)
P2 == ParameterIndex("p2", "b", TRUE, <<>>)
\* a private (user) derived parameter, child of no dataset
UP1 == ParameterIndex("up1", "mine", FALSE, <<>>)
\* p3 has the display name of its sibling p2 (name collision inside DS2);
\* p2 is a child of DS1 and of DS2
DS2 == DatasetIndex("ds2", "DS2", 0, 6, <<>>, <<ParameterIndex("p3", "b", TRUE, <<>>), P2>>)
TT1 == TimetableIndex("tt1", "T1", TRUE)
UTT1 == TimetableIndex("utt1", "myT", FALSE)
UCAT1 == CatalogIndex("ucat1", "myK", FALSE)
\* a namespace node (mission folder): in the tree, in no flat mapping
ACE == SpeasyIndex("ACE", "ACE")

\* a namespace node of the tree, with the nodes below it
Namespace(uid, name, children) ==
    [type |-> "SpeasyIndex", uid |-> uid, name |-> name, children |-> children]

\* ------------------------------------------------- inventory descriptions
\* an element of a description sent by the server: tag, attributes, elements
Element(tag, xmlid, name, children) ==
    [tag |-> tag, xmlid |-> xmlid, name |-> name, children |-> children]

\* what the endpoints of the server describe: the obs data tree, the lists of
\* time tables and catalogs (shared and of the user), the derived parameters.
\* DS1 is restricted from day 3 to its stop date; p3 and p2 have the same name
\* in DS2; the uid of DS3 is also the uid of parameter p1, and its
\* timeRestriction is not before its stop date
RawDescriptions ==
    LET DatasetElement(xmlid, name, dataStart, dataStop, children) ==
            [tag |-> "dataset", xmlid |-> xmlid, name |-> name, dataStart |-> dataStart,
             dataStop |-> dataStop, children |-> children]
        RawP1 == Element("parameter", "p1", "a",
                         <<Element("component", "c1x", "x", <<>>),
                           Element("component", "c1y", "y", <<>>)>>)
        RawP2 == Element("parameter", "p2", "b", <<>>)
        RawP3 == Element("parameter", "p3", "b", <<>>)
        RawDS1 == [tag |-> "dataset", xmlid |-> "ds1", name |-> "DS1", dataStart |-> 1,
                   dataStop |-> 4, timeRestriction |-> 3, children |-> <<RawP1, RawP2>>]
        RawDS2 == DatasetElement("ds2", "DS2", 0, 6, <<RawP3, RawP2>>)
        RawDS3 == [tag |-> "dataset", xmlid |-> "p1", name |-> "DS3", dataStart |-> 2,
                   dataStop |-> 5, timeRestriction |-> 5,
                   children |-> <<Element("parameter", "p4", "c", <<>>)>>]
    IN  {[obs_data_tree |-> Element("dataCenter", "dc", "dc",
                                    <<Element("mission", "ACE", "ACE", datasets)>>),
          timetables |-> Element("timetabList", "sharedtimeTable-list", "Shared",
                                 <<Element("timetab", "tt1", "T1", <<>>)>>),
          catalogs |-> Element("catalogList", "sharedcatalog-list", "Shared",
                               <<Element("catalog", "cat1", "K1", <<>>)>>),
          user_timetables |-> Element("timetabList", "timeTable-list", "Mine",
                                      <<Element("timetab", "utt1", "myT", <<>>)>>),
          user_catalogs |-> Element("catalogList", "catalog-list", "Mine",
                                    <<Element("catalog", "ucat1", "myK", <<>>)>>),
          derived_parameters |-> Element("paramList", "param-list", "Mine",
                                         <<Element("param", "up1", "mine", <<>>)>>)]
         : datasets \in {<<RawDS1, RawDS2, RawDS3>>, <<RawDS2, RawDS1, RawDS3>>}}

\* ----------------------------------------------------- the tree builder
\* name_mapping of the providers: the attribute that names a node of a kind
clweb_name_mapping == [kind \in {} |-> "name"]

amda_name_mapping ==
    [dataset |-> "xmlid", parameter |-> "xmlid", folder |-> "name", component |-> "xmlid"]

\* sanitized name: the names of the descriptions above are identifiers but
\* for the ids of the lists, whose '-' is replaced
fix_name(name) ==
    CASE name = "sharedtimeTable-list" -> "sharedtimeTable_list"
      [] name = "sharedcatalog-list" -> "sharedcatalog_list"
      [] name = "timeTable-list" -> "timeTable_list"
      [] name = "catalog-list" -> "catalog_list"
      [] name = "param-list" -> "param_list"
      [] OTHER -> name

\* the key under which a node is attached to its parent
KeyOf(node, mapping) ==
    LET kind == CASE node.type = "DatasetIndex" -> "dataset"
                  [] node.type = "ParameterIndex" -> "parameter"
                  [] node.type = "ComponentIndex" -> "component"
                  [] node.type = "TimetableIndex" -> "timetable"
                  [] node.type = "CatalogIndex" -> "catalog"
                  [] OTHER -> "folder"
        name_key == IF kind \in DOMAIN mapping THEN mapping[kind] ELSE "name"
    IN  fix_name(IF name_key = "xmlid" THEN node.uid ELSE node.name)

\* parent.__dict__[key] = node: a node attached under a key already in use
\* replaces the node that was there
SetItem(children, node, mapping) ==
    IF \E i \in DOMAIN children : KeyOf(children[i], mapping) = KeyOf(node, mapping)
    THEN LET i == CHOOSE j \in DOMAIN children : KeyOf(children[j], mapping) = KeyOf(node, mapping)
         IN  [children EXCEPT ![i] = node]
    ELSE Append(children, node)

RECURSIVE parse(_, _, _)
RECURSIVE make_children(_, _, _)
\* the nodes made from the elements es, attached in document order
make_children(es, mapping, public) ==
    IF es = <<>> THEN <<>>
    ELSE SetItem(make_children(SubSeq(es, 1, Len(es) - 1), mapping, public),
                 parse(es[Len(es)], mapping, public), mapping)

\* ImpexXMLParser.parse: the index node of an element, by recursive descent
parse(e, mapping, public) ==
    LET kind == CASE e.tag = "dataset" -> "dataset"
                  [] e.tag \in {"parameter", "param"} -> "parameter"
                  [] e.tag = "component" -> "component"
                  [] e.tag = "timetab" -> "timetable"
                  [] e.tag = "catalog" -> "catalog"
                  [] OTHER -> "folder"
        children == make_children(e.children, mapping, public)
    IN  CASE kind = "dataset" ->
                 DatasetIndex(e.xmlid, e.name, e.dataStart, e.dataStop,
                              IF "timeRestriction" \in DOMAIN e THEN <<e.timeRestriction>> ELSE <<>>,
                              children)
          [] kind = "parameter" -> ParameterIndex(e.xmlid, e.name, public, children)
          [] kind = "component" -> ComponentIndex(e.xmlid, e.name)
          [] kind = "timetable" -> TimetableIndex(e.xmlid, e.name, public)
          [] kind = "catalog" -> CatalogIndex(e.xmlid, e.name, public)
          [] OTHER -> Namespace(e.xmlid, e.name, children)

\* root.<name> = child
SetAttr(node, child) == [node EXCEPT !.children = Append(@, child)]

\* build_inventory of a provider with the capabilities caps
build_inventory(root, d, mapping, caps) ==
    LET obs_data_tree == parse(d.obs_data_tree, mapping, TRUE)
        r1 == SetAttr(root, Namespace("Parameters", "Parameters", obs_data_tree.children))
        public_tt == parse(d.timetables, mapping, TRUE)
        r2 == IF "GETTT" \in caps
              THEN SetAttr(r1, Namespace("TimeTables", "TimeTables",
                               <<Namespace("SharedTimeTables", "SharedTimeTables",
                                           public_tt.children)>>))
              ELSE r1
        public_cat == parse(d.catalogs, mapping, TRUE)
    IN  IF "GETCAT" \in caps
        THEN SetAttr(r2, Namespace("Catalogs", "Catalogs",
                         <<Namespace("SharedCatalogs", "SharedCatalogs", public_cat.children)>>))
        ELSE r2

\* mutant of build_private_inventory: the credentials are not looked at
build_private_inventory_unchecked(root, d, mapping, caps, valid) ==
    LET SetAttrOf(node, uid, child) ==
            [node EXCEPT !.children =
                [i \in DOMAIN @ |-> IF @[i].uid = uid THEN SetAttr(@[i], child) ELSE @[i]]]
        r1 == IF "GETTT" \in caps
              THEN SetAttrOf(root, "TimeTables",
                             Namespace("MyTimeTables", "MyTimeTables",
                                       parse(d.user_timetables, mapping, FALSE).children))
              ELSE root
    IN  IF "GETCAT" \in caps
        THEN SetAttrOf(r1, "Catalogs",
                       Namespace("MyCatalogs", "MyCatalogs",
                                 parse(d.user_catalogs, mapping, FALSE).children))
        ELSE r1

\* build_private_inventory; valid is credential_are_valid()
build_private_inventory(root, d, mapping, caps, valid) ==
    LET \* root.<uid>.<name> = child
        SetAttrOf(node, uid, child) ==
            [node EXCEPT !.children =
                [i \in DOMAIN @ |-> IF @[i].uid = uid THEN SetAttr(@[i], child) ELSE @[i]]]
        user_tt == parse(d.user_timetables, mapping, FALSE)
        r1 == IF "GETTT" \in caps
              THEN SetAttrOf(root, "TimeTables",
                             Namespace("MyTimeTables", "MyTimeTables", user_tt.children))
              ELSE root
        user_cat == parse(d.user_catalogs, mapping, FALSE)
        r2 == IF "GETCAT" \in caps
              THEN SetAttrOf(r1, "Catalogs",
                             Namespace("MyCatalogs", "MyCatalogs", user_cat.children))
              ELSE r1
        user_param == parse(d.derived_parameters, mapping, FALSE)
    IN  IF ~valid THEN root
        ELSE IF "LISTPARAM" \in caps
             THEN SetAttr(r2, Namespace("DerivedParameters", "DerivedParameters",
                              user_param.children))
             ELSE r2

\* ------------------------------------------------------- the flat inventory
\* flat mappings are insertion-ordered dictionaries uid -> node: a sequence
\* of nodes with pairwise distinct uids
\* the flat mapping of the nodes of a type (none for a namespace node)
MappingOf(type) ==
    CASE type = "DatasetIndex" -> <<"datasets">>
      [] type = "ParameterIndex" -> <<"parameters">>
      [] type = "ComponentIndex" -> <<"components">>
      [] type = "TimetableIndex" -> <<"timetables">>
      [] type = "CatalogIndex" -> <<"catalogs">>
      [] OTHER -> <<>>

\* mutant of DictSet: the node is added whether its uid is there or not
DictSet_appending(mapping, node) == Append(mapping, node)

\* mapping[node.uid] = node
DictSet(mapping, node) ==
    IF \E i \in DOMAIN mapping : mapping[i].uid = node.uid
    THEN [i \in DOMAIN mapping |-> IF mapping[i].uid = node.uid THEN node ELSE mapping[i]]
    ELSE Append(mapping, node)

RECURSIVE walk(_, _)
\* one depth-first traversal of the nodes and of what is below them
walk(nodes, flat) ==
    IF nodes = <<>> THEN flat
    ELSE LET node == Head(nodes)
             m == MappingOf(node.type)
             here == IF m = <<>> THEN flat
                     ELSE [flat EXCEPT ![m[1]] = DictSet(@, node)]
             below == IF "children" \in DOMAIN node THEN walk(node.children, here) ELSE here
         IN  walk(Tail(nodes), below)

\* flat_inventories.<provider>.update(root): the mappings are replaced by
\* those of the tree
update(root) ==
    walk(<<root>>, [datasets |-> <<>>, parameters |-> <<>>, components |-> <<>>,
                    timetables |-> <<>>, catalogs |-> <<>>])

\* the inventories of a provider: the public pass, the private pass, then the
\* flat update, for the descriptions the server may send
Inventories(provider, mapping, caps, valid) ==
    {update(build_private_inventory(
                build_inventory(Namespace(provider, provider, <<>>), d, mapping, caps),
                d, mapping, caps, valid)) : d \in RawDescriptions}

\* the nodes of the inventories and the products a caller may ask for
AllNodes ==
    {ACE, UP1}
        \cup UNION {{inv[m][i] : i \in DOMAIN inv[m]} :
                         inv \in Inventories("amda", amda_name_mapping,
                                             {"GETTT", "GETCAT"}, TRUE),
                         m \in {"datasets", "parameters", "components", "timetables", "catalogs"}}

Products == {Str(id) : id \in {n.uid : n \in AllNodes} \cup {"nope"}} \cup AllNodes

\* ------------------------------------------------------------------- state
VARIABLES
    flat_inventory,       \* flat_inventories.__dict__[provider_name]
    username, password,   \* ImpexClient credentials
    capabilities,         \* ImpexClient.capabilities
    max_chunk_size_days,  \* ImpexProvider.max_chunk_size_days
    pc,                   \* position of the call in progress
    op,                   \* the operation called and its arguments
    dl,                   \* arguments of the dl_parameter call in progress
    curr_t, var,          \* loop cursor and accumulator of dl_parameter
    ds,                   \* fan-out of get_dataset: pending children, variables
    fetches,              \* calls of dl_parameter_chunk made by the call
    requests,             \* HTTP requests sent by the call
    warnings,             \* log.warning messages emitted by the call
    disable_proxy,        \* kwargs['disable_proxy'] of the call
    result, raised        \* what the call returned / the exception it raised

vars == <<flat_inventory, username, password, capabilities, max_chunk_size_days,
          pc, op, dl, curr_t, var, ds, fetches, requests, warnings,
          disable_proxy, result, raised>>

inventory_vars == <<flat_inventory, username, password, capabilities, max_chunk_size_days>>

\* ------------------------------------------------------------ flat lookups
\* "uid in mapping" and "mapping[uid]" of an insertion-ordered dictionary
HasKey(mapping, uid) == \E i \in 1..Len(mapping) : mapping[i].uid = uid

Lookup(mapping, uid) == mapping[CHOOSE i \in 1..Len(mapping) : mapping[i].uid = uid]

Min(S) == CHOOSE m \in S : \A n \in S : m <= n

\* "uid in dataset": uid is the uid of a descendant of the dataset node
Contains(dataset, uid) ==
    \E i \in 1..Len(dataset.children) :
        \/ dataset.children[i].uid = uid
        \/ \E j \in 1..Len(dataset.children[i].children) :
               dataset.children[i].children[j].uid = uid

is_private(node) == ~node.is_public

is_public(node) == node.is_public

\* ------------------------------------------------ classification (provider)
\* mutant of product_type: the parameter mapping is tested before the datasets
product_type_parameters_first(inv, product) ==
    LET product_id == to_xmlid(product) IN
    IF HasKey(inv.parameters, product_id) THEN "PARAMETER"
    ELSE IF HasKey(inv.datasets, product_id) THEN "DATASET"
    ELSE IF HasKey(inv.components, product_id) THEN "COMPONENT"
    ELSE IF HasKey(inv.timetables, product_id) THEN "TIMETABLE"
    ELSE IF HasKey(inv.catalogs, product_id) THEN "CATALOG"
    ELSE "UNKNOWN"

product_type(inv, product) ==
    LET product_id == to_xmlid(product) IN
    IF HasKey(inv.datasets, product_id) THEN "DATASET"
    ELSE IF HasKey(inv.parameters, product_id) THEN "PARAMETER"
    ELSE IF HasKey(inv.components, product_id) THEN "COMPONENT"
    ELSE IF HasKey(inv.timetables, product_id) THEN "TIMETABLE"
    ELSE IF HasKey(inv.catalogs, product_id) THEN "CATALOG"
    ELSE "UNKNOWN"

\* mutant of find_parent_dataset: the last dataset that contains the id wins
find_parent_dataset_last(inv, product) ==
    LET product_id == to_xmlid(product)
        t == product_type(inv, Str(product_id))
        hits == {i \in 1..Len(inv.datasets) : Contains(inv.datasets[i], product_id)}
    IN  IF t = "DATASET" THEN Str(product_id)
        ELSE IF t \in {"COMPONENT", "PARAMETER"}
             THEN IF hits = {} THEN None
                  ELSE Str(to_xmlid(inv.datasets[CHOOSE m \in hits : \A n \in hits : n <= m]))
             ELSE None

find_parent_dataset(inv, product) ==
    LET product_id == to_xmlid(product)
        t == product_type(inv, Str(product_id))
        hits == {i \in 1..Len(inv.datasets) : Contains(inv.datasets[i], product_id)}
    IN  IF t = "DATASET" THEN Str(product_id)
        ELSE IF t \in {"COMPONENT", "PARAMETER"}
             THEN IF hits = {} THEN None ELSE Str(to_xmlid(inv.datasets[Min(hits)]))
             ELSE None

is_user_product(product, collection) ==
    LET xmlid == to_xmlid(product) IN
    IF HasKey(collection, xmlid) THEN is_private(Lookup(collection, xmlid)) ELSE FALSE

list_parameters(inv, dataset_id) == Lookup(inv.datasets, to_xmlid(dataset_id)).children

\* ------------------------------------------------------------- time ranges
DateTimeRange(start_time, stop_time) == [start_time |-> start_time, stop_time |-> stop_time]

\* closed-open intervals [start, stop)
intersect(a, b) == a.start_time < b.stop_time /\ b.start_time < a.stop_time

dataset_range(inv, dataset_id) ==
    LET d == Lookup(inv.datasets, to_xmlid(dataset_id)) IN DateTimeRange(d.start_date, d.stop_date)

parameter_range(inv, product) == dataset_range(inv, find_parent_dataset(inv, product))

\* mutant of has_time_restriction: the requested range is not looked at
has_time_restriction_any_range(inv, product, start_time, stop_time) ==
    LET dataset == find_parent_dataset(inv, product) IN
    IF dataset # None
    THEN LET d == Lookup(inv.datasets, to_xmlid(dataset)) IN
         IF d.timeRestriction # <<>>
         THEN d.timeRestriction[1] < d.stop_date
         ELSE FALSE
    ELSE FALSE

\* AMDA_Webservice.has_time_restriction
has_time_restriction(inv, product, start_time, stop_time) ==
    LET dataset == find_parent_dataset(inv, product) IN
    IF dataset # None
    THEN LET d == Lookup(inv.datasets, to_xmlid(dataset)) IN
         IF d.timeRestriction # <<>>
         THEN LET lower == d.timeRestriction[1]
                  upper == d.stop_date
              IN  IF lower < upper
                  THEN intersect(DateTimeRange(lower, upper), DateTimeRange(start_time, stop_time))
                  ELSE FALSE
         ELSE FALSE
    ELSE FALSE

OutOfRangeWarning(product, range) ==
    [text |-> "outside of its definition range", product |-> to_xmlid(product), range |-> range]

\* ------------------------------------------------------------------ client
clweb_capabilities == {"OBSTREE", "GETPARAM", "LISTTT", "GETTT"}

amda_capabilities == {"AUTH", "OBSTREE", "GETPARAM", "LISTTT", "GETTT", "LISTCAT", "GETCAT"}

is_capable(api) == api \in capabilities

\* the provider configured: ClWebservice or the AMDA provider
provider_name == IF capabilities = clweb_capabilities THEN "clweb" ELSE "amda"

\* the name_mapping given to ImpexProvider
name_mapping == IF provider_name = "clweb" THEN clweb_name_mapping ELSE amda_name_mapping

use_token == is_capable("AUTH")

\* mutant of credential_are_valid: one non-empty field is enough
credential_are_valid_or == username # "" \/ password # ""

credential_are_valid == username # "" /\ password # ""

MissingCredentials == [type |-> "MissingCredentials"]

UnknownProduct == [type |-> "ValueError", text |-> "Unknown product"]

\* one http.get: the endpoint and the params sent
HttpGet(endpoint, params) == [endpoint |-> endpoint, params |-> params]

\* what the server and the decoder do with one request
FetchOutcomes == {"ok", "http_error", "load_error"}

\* what the server answers to one http.get: "http_error" is a status other
\* than 200, "not_success" a JSON body without success and dataFileURLs,
\* "in_progress" a JSON body {success, status: in progress}, "not_json" a body
\* that is no JSON (r.json() raises JSONDecodeError)
HttpAnswers == {"ok", "http_error", "not_success", "in_progress", "not_json"}

\* r.text.strip() of an answer
Text(endpoint) == [type |-> "str", value |-> endpoint]

\* _send_request: the dataFileURLs of a success answer (at once, or polled from
\* GETSTATUS), the text of a body that is no JSON, None otherwise
_send_request(endpoint, params, outcome) ==
    IF outcome \in {"http_error", "not_success"} THEN None
    ELSE IF outcome = "in_progress" /\ ~is_capable("GETSTATUS") THEN None
    ELSE IF outcome = "not_json" THEN Text(endpoint)
    ELSE [type |-> "url", endpoint |-> endpoint, params |-> params]

TypeError == [type |-> "TypeError"]

\* _send_indirect_request: the first answer gives the url of the file, the
\* second http.get fetches it; '<' in next_url raises TypeError on None
_send_indirect_request(endpoint, params, first, second) ==
    LET next_url == _send_request(endpoint, params, first) IN
    IF next_url = None
    THEN [exc |-> TypeError, value |-> None, requests |-> <<HttpGet(endpoint, params)>>]
    ELSE [exc |-> None,
          value |-> IF second = "http_error" THEN None ELSE Text("next_url"),
          requests |-> <<HttpGet(endpoint, params), HttpGet("next_url", <<>>)>>]

\* mutant of client_get_list: the request is sent without asking get_credentials
client_get_list_unchecked(endpoint, use_credentials, first, second) ==
    LET params == IF use_credentials
                  THEN ("userID" :> username) @@ ("password" :> password) ELSE <<>>
    IN  _send_indirect_request(endpoint, params, first, second)

\* ImpexClient.get_obs_data_tree / get_time_table_list / get_catalog_list
client_get_list(endpoint, use_credentials, first, second) ==
    LET params == IF use_credentials
                  THEN ("userID" :> username) @@ ("password" :> password) ELSE <<>>
    IN  IF use_credentials /\ ~credential_are_valid
        THEN [exc |-> MissingCredentials, value |-> None, requests |-> <<>>]
        ELSE _send_indirect_request(endpoint, params, first, second)

\* ImpexClient.get_parameter; raised is TRUE when get_credentials raises
client_get_parameter(start_time, stop_time, parameter_id, use_credentials, kwargs, outcome) ==
    LET p0 == [startTime |-> start_time, stopTime |-> stop_time, parameterID |-> parameter_id,
               outputFormat |-> IF "output_format" \in DOMAIN kwargs
                                THEN kwargs.output_format ELSE "CDF"]
        p1 == IF "time_format" \in DOMAIN kwargs
              THEN ("timeFormat" :> kwargs.time_format) @@ p0 ELSE p0
        p2 == IF use_credentials
              THEN ("userID" :> username) @@ ("password" :> password) @@ p1 ELSE p1
        p3 == IF use_token THEN ("token" :> "token") @@ p2 ELSE p2
    IN  IF use_credentials /\ ~credential_are_valid
        THEN [raised |-> TRUE, url |-> None, requests |-> <<>>]
        ELSE [raised |-> FALSE,
              url |-> _send_request("GETPARAM", p3, outcome),
              requests |-> (IF use_token THEN <<HttpGet("AUTH", <<>>)>> ELSE <<>>)
                           \o <<HttpGet("GETPARAM", p3)>>]

\* ImpexClient.get_timetable / get_catalog (endpoint GETTT / GETCAT)
client_get_product(endpoint, key, product_id, use_credentials, outcome) ==
    LET p0 == (key :> product_id)
        p1 == IF use_credentials
              THEN ("userID" :> username) @@ ("password" :> password) @@ p0 ELSE p0
    IN  IF use_credentials /\ ~credential_are_valid
        THEN [raised |-> TRUE, url |-> None, requests |-> <<>>]
        ELSE [raised |-> FALSE,
              url |-> _send_request(endpoint, p1, outcome),
              requests |-> <<HttpGet(endpoint, p1)>>]

\* --------------------------------------------------------------- variables
\* a variable of one row of values per sample: the value of the day
SpeasyVariable(name, time) ==
    [type |-> "SpeasyVariable", name |-> name, time |-> time,
     values |-> [i \in DOMAIN time |-> <<"value", time[i]>>]]

\* start_time.strftime('%Y-%m-%dT%H:%M:%SZ')
strftime(t) == <<"%Y-%m-%dT%H:%M:%SZ", t>>

\* the server holds one sample per day: the samples of [a, b)
SamplesIn(a, b) == IF b > a THEN [i \in 1..(b - a) |-> a + i - 1] ELSE <<>>

\* cdf.load_variables for the variables of a product (None when there is
\* none; one variable is loaded directly)
cdf_load_variables(variables, url, outcome) ==
    IF variables = <<>> \/ outcome = "load_error" THEN None
    ELSE SpeasyVariable(variables[1], SamplesIn(url.params.startTime[2], url.params.stopTime[2]))

\* merge([a, b]) of products.variable
merge(a, b) ==
    IF a = None THEN b
    ELSE IF b = None THEN a
    ELSE [a EXCEPT !.time = a.time \o b.time, !.values = a.values \o b.values]

\* ---------------------------------------------------- ImpexProvider fetches
get_product_variables(product) == <<to_xmlid(product)>>

\* mutant of dl_parameter_chunk: a failed request or load raises
dl_parameter_chunk_raising(start_time, stop_time, parameter_id, use_credentials, product_variables, kwargs, outcome) ==
    IF product_variables = <<>>
    THEN [raised |-> FALSE, var |-> None, requests |-> <<>>]
    ELSE LET r == client_get_parameter(strftime(start_time), strftime(stop_time), parameter_id,
                                       use_credentials, kwargs, outcome)
         IN  [raised |-> r.raised \/ outcome # "ok",
              var |-> IF r.raised \/ r.url = None THEN None
                      ELSE cdf_load_variables(product_variables, r.url, outcome),
              requests |-> r.requests]

\* dl_parameter_chunk; product_variables = <<>> stands for None or []
dl_parameter_chunk(start_time, stop_time, parameter_id, use_credentials, product_variables, kwargs, outcome) ==
    IF product_variables = <<>>
    THEN [raised |-> FALSE, var |-> None, requests |-> <<>>]
    ELSE LET r == client_get_parameter(strftime(start_time), strftime(stop_time), parameter_id,
                                       use_credentials, kwargs, outcome)
         IN  [raised |-> r.raised,
              var |-> IF r.raised \/ r.url = None THEN None
                      ELSE cdf_load_variables(product_variables, r.url, outcome),
              requests |-> r.requests]

\* the record of one call of dl_parameter_chunk: its arguments, the requests
\* it sent, the value it returned and the dl_parameter call (frame) that made it
Fetch(start_time, stop_time, parameter_id, use_credentials, reqs, value, frame) ==
    [start_time |-> start_time, stop_time |-> stop_time, parameter_id |-> parameter_id,
     use_credentials |-> use_credentials, requests |-> reqs, var |-> value, dl |-> frame]

\* what the first part of a retrieval did: it raised, it returned a value, or
\* it entered the chunk loop of dl_parameter
Outcome(kind, value, exc, fs, reqs, warns, frame, no_proxy) ==
    [kind |-> kind, value |-> value, exc |-> exc, fetches |-> fs, requests |-> reqs,
     warnings |-> warns, dl |-> frame, disable_proxy |-> no_proxy]

\* use_credentials of the chunk fetches made by the loop of dl_parameter: the
\* loop does not pass it, dl_parameter_chunk takes its default
LoopUseCredentials == FALSE

\* mutant of merge_chunk: the chunk replaces the accumulator
merge_chunk_overwrite(acc, chunk) == chunk

\* mutant of merge_chunk: the accumulator is appended to the chunk
merge_chunk_prepend(acc, chunk) == merge(chunk, acc)

\* mutant of merge_chunk: the chunk is fetched but its fold is left for later
merge_chunk_deferred(acc, chunk) == acc

\* "var = merge([var, self.dl_parameter_chunk(...)])": the fold of the loop
merge_chunk(acc, chunk) == merge(acc, chunk)

\* mutant of needs_chunks: a range of exactly dt is split too
needs_chunks_ge(start_time, stop_time, dt) == stop_time - start_time >= dt

\* "stop_time - start_time > dt": the range is split into chunks
needs_chunks(start_time, stop_time, dt) == stop_time - start_time > dt

\* mutant of chunk_stop: the last chunk is not clipped to stop_time
chunk_stop_noclip(curr, dt, stop_time) == curr + dt

\* "min(curr_t + dt, stop_time)": the end of the chunk that begins at curr
chunk_stop(curr, dt, stop_time) == IF curr + dt < stop_time THEN curr + dt ELSE stop_time

\* dl_parameter up to its loop; a is the record of its arguments
dl_parameter(a, no_proxy, outcome) ==
    LET dt == max_chunk_size_days IN
    IF a.restricted_period /\ ~credential_are_valid
    THEN Outcome("raise", None, MissingCredentials, <<>>, <<>>, <<>>, a, no_proxy)
    ELSE LET use_credentials == a.restricted_period \/ a.use_credentials
             frame == [a EXCEPT !.use_credentials = use_credentials]
         IN  IF needs_chunks(a.start_time, a.stop_time, dt)
             THEN Outcome("loop", None, None, <<>>, <<>>, <<>>, frame, no_proxy)
             ELSE LET uc == a.restricted_period \/ use_credentials
                      c == dl_parameter_chunk(a.start_time, a.stop_time, a.parameter_id, uc,
                                              a.product_variables, a.kwargs, outcome)
                      f == Fetch(a.start_time, a.stop_time, a.parameter_id, uc, c.requests, c.var, frame)
                  IN  IF c.raised
                      THEN Outcome("raise", None, MissingCredentials, <<f>>, c.requests, <<>>,
                                   frame, no_proxy)
                      ELSE Outcome("return", c.var, None, <<f>>, c.requests, <<>>, frame, no_proxy)

DlArgs(start_time, stop_time, parameter_id, restricted_period, use_credentials, product_variables, kwargs) ==
    [start_time |-> start_time, stop_time |-> stop_time, parameter_id |-> parameter_id,
     restricted_period |-> restricted_period, use_credentials |-> use_credentials,
     product_variables |-> product_variables, kwargs |-> kwargs]

\* ParameterRangeCheck: a request outside of the definition range of the
\* product is answered None with a warning, the wrapped function is not called
ParameterRangeCheck(product, start_time, stop_time, no_proxy, wrapped) ==
    LET p_range == parameter_range(flat_inventory, product) IN
    IF ~intersect(p_range, DateTimeRange(start_time, stop_time))
    THEN Outcome("return", None, None, <<>>, <<>>, <<OutOfRangeWarning(product, p_range)>>,
                 None, no_proxy)
    ELSE wrapped

\* ImpexProvider._get_parameter
_get_parameter(product, start_time, stop_time, restricted_period, no_proxy, outcome) ==
    ParameterRangeCheck(product, start_time, stop_time, no_proxy,
        dl_parameter(DlArgs(start_time, stop_time, product, restricted_period, FALSE,
                            get_product_variables(product),
                            [output_format |-> "CDF", time_format |-> "UNIXTIME"]),
                     no_proxy, outcome))

\* ImpexProvider.get_parameter
\* hasattr(self, 'has_time_restriction'): the AMDA provider defines it,
\* ClWebservice does not
get_parameter_outcome(product, start_time, stop_time, outcome) ==
    IF /\ provider_name = "amda"
       /\ has_time_restriction(flat_inventory, product, start_time, stop_time)
    THEN _get_parameter(product, start_time, stop_time, TRUE, TRUE, outcome)
    ELSE _get_parameter(product, start_time, stop_time, FALSE, FALSE, outcome)

\* ImpexProvider.get_user_parameter / dl_user_parameter
get_user_parameter_outcome(parameter_id, start_time, stop_time, outcome) ==
    dl_parameter(DlArgs(start_time, stop_time, Str(to_xmlid(parameter_id)), FALSE, TRUE,
                        <<>>, <<>>),
                 FALSE, outcome)

\* target.update(source) of two dictionaries: target gets the items of source,
\* source is left as it is
meta_update(target, source) == [target |-> source @@ target, source |-> source]

\* flat_inventory after the statements that read the node of a mapping
WithNode(mapping, node) ==
    IF node = <<>> THEN flat_inventory
    ELSE [flat_inventory EXCEPT ![mapping] = DictSet(@, node)]

TimeTable(name, meta) == [type |-> "TimeTable", name |-> name, meta |-> meta]

Catalog(name, meta) == [type |-> "Catalog", name |-> name, meta |-> meta]

Dataset(name, variables, meta) ==
    [type |-> "Dataset", name |-> name, variables |-> variables, meta |-> meta]

\* dl_timetable
dl_timetable(timetable_id, use_credentials, outcome) ==
    LET r == client_get_product("GETTT", "ttID", timetable_id, use_credentials, outcome)
        \* timetables.get(timetable_id, SimpleNamespace()).__dict__
        node == IF HasKey(flat_inventory.timetables, timetable_id)
                THEN Lookup(flat_inventory.timetables, timetable_id) ELSE <<>>
        u == meta_update(<<>>, node)
    IN  IF r.raised
        THEN Outcome("raise", None, MissingCredentials, <<>>, <<>>, <<>>, None, FALSE)
        ELSE IF r.url # None /\ outcome = "ok"
             THEN [inventory |-> WithNode("timetables", u.source)]
                  @@ Outcome("return", TimeTable(timetable_id, u.target),
                             None, <<>>, r.requests, <<>>, None, FALSE)
             ELSE Outcome("return", None, None, <<>>, r.requests, <<>>, None, FALSE)

\* dl_catalog
dl_catalog(catalog_id, use_credentials, outcome) ==
    LET r == client_get_product("GETCAT", "catID", catalog_id, use_credentials, outcome)
        \* catalogs.get(catalog_id, SimpleNamespace()).__dict__
        node == IF HasKey(flat_inventory.catalogs, catalog_id)
                THEN Lookup(flat_inventory.catalogs, catalog_id) ELSE <<>>
        u == meta_update(<<>>, node)
    IN  IF r.raised
        THEN Outcome("raise", None, MissingCredentials, <<>>, <<>>, <<>>, None, FALSE)
        ELSE IF r.url # None /\ outcome = "ok"
             THEN [inventory |-> WithNode("catalogs", u.source)]
                  @@ Outcome("return", Catalog(catalog_id, u.target),
                             None, <<>>, r.requests, <<>>, None, FALSE)
             ELSE Outcome("return", None, None, <<>>, r.requests, <<>>, None, FALSE)

\* ------------------------------------------------------------------ inputs
Ranges == {r \in Times \X Times : r[1] < r[2]}

\* products asked to get_parameter: parameters and components of a dataset
ParameterInputs == {Str("p1"), Str("p2"), P2, Str("p4"), Str("c1x")}

DatasetInputs == {Str("ds1"), DS2, Str("p1")}

UserParameterInputs == {Str("up1"), UP1, Str("Id doesn't matter")}

TimetableInputs == {Str("tt1"), UTT1, Str("Id doesn't matter")}

CatalogInputs == {Str("cat1"), UCAT1, Str("Id doesn't matter")}

\* products asked to get_data, with a time range or without one (<<>>)
DataInputs == {Str("ds1"), Str("p2"), UP1, Str("c1x"), TT1, Str("utt1"), Str("cat1"), UCAT1, ACE, Str("nope")}

DataRanges == {<<>>, <<0, 1>>, <<2, MaxTime>>}

\* -------------------------------------------------------------------- Init
Init ==
    /\ capabilities \in {clweb_capabilities, amda_capabilities}
    /\ username \in {"", "user"}
    /\ password \in {"", "secret"}
    /\ flat_inventory \in Inventories(provider_name, name_mapping, capabilities,
                                      credential_are_valid)
    /\ max_chunk_size_days \in (0 - MaxNegChunkDays)..MaxChunkDays
    /\ pc = "idle"
    /\ op = None
    /\ dl = None
    /\ curr_t = 0
    /\ var = None
    /\ ds = None
    /\ fetches = <<>>
    /\ requests = <<>>
    /\ warnings = <<>>
    /\ disable_proxy = FALSE
    /\ result = None
    /\ raised = None

\* no call is in progress
Idle == pc = "idle"

\* a retrieval of one parameter returns value: to the caller, or into the
\* variables of the dataset being assembled (frame d)
Return(value, d) ==
    IF d = None
    THEN /\ result' = value
         /\ pc' = "done"
         /\ ds' = None
    ELSE /\ ds' = [d EXCEPT !.variables = (Head(d.pending).name :> value) @@ @,
                            !.pending = Tail(@)]
         /\ pc' = "get_dataset"
         /\ result' = None

\* the state after the first part o of a retrieval, made after the fetches fs,
\* requests reqs and warnings warns, for the dataset frame d (None: no dataset)
Deliver(o, fs, reqs, warns, d) ==
    /\ fetches' = fs \o o.fetches
    /\ requests' = reqs \o o.requests
    /\ warnings' = warns \o o.warnings
    /\ disable_proxy' = o.disable_proxy
    /\ dl' = o.dl
    /\ raised' = IF o.kind = "raise" THEN o.exc ELSE None
    /\ CASE o.kind = "raise"  -> /\ pc' = "done"
                                 /\ result' = None
                                 /\ ds' = None
                                 /\ UNCHANGED <<curr_t, var>>
         [] o.kind = "loop"   -> /\ pc' = "dl_parameter"
                                 /\ curr_t' = o.dl.start_time
                                 /\ var' = None
                                 /\ result' = None
                                 /\ ds' = d
         [] o.kind = "return" -> /\ Return(o.value, d)
                                 /\ UNCHANGED <<curr_t, var>>
    /\ flat_inventory' = IF "inventory" \in DOMAIN o THEN o.inventory ELSE flat_inventory
    /\ UNCHANGED <<username, password, capabilities, max_chunk_size_days>>

\* ------------------------------------------------------ the chunk loop
\* number of iterations made by the dl_parameter call in progress
Iterations == Cardinality({i \in 1..Len(fetches) : fetches[i].dl = dl})

\* one iteration of the while loop of dl_parameter
dl_parameter_loop ==
    /\ pc = "dl_parameter"
    /\ curr_t < dl.stop_time
    /\ max_chunk_size_days > 0 \/ Iterations < MaxFetches
    /\ \E outcome \in FetchOutcomes :
        LET dt == max_chunk_size_days
            stop == chunk_stop(curr_t, dt, dl.stop_time)
            c == dl_parameter_chunk(curr_t, stop, dl.parameter_id, LoopUseCredentials,
                                    dl.product_variables, dl.kwargs, outcome)
            f == Fetch(curr_t, stop, dl.parameter_id, LoopUseCredentials, c.requests, c.var, dl)
        IN  /\ fetches' = Append(fetches, f)
            /\ requests' = requests \o c.requests
            /\ IF c.raised
               THEN /\ raised' = MissingCredentials
                    /\ pc' = "done"
                    /\ ds' = None
                    /\ UNCHANGED <<var, curr_t>>
               ELSE /\ var' = merge_chunk(var, c.var)
                    /\ curr_t' = curr_t + dt
                    /\ UNCHANGED <<raised, pc, ds>>
    /\ UNCHANGED <<inventory_vars, op, dl, warnings, disable_proxy, result>>

\* the loop of dl_parameter ends: return var
dl_parameter_return ==
    /\ pc = "dl_parameter"
    /\ ~(curr_t < dl.stop_time)
    /\ Return(var, ds)
    /\ UNCHANGED <<inventory_vars, op, dl, curr_t, var, fetches, requests, warnings,
                   disable_proxy, raised>>

\* --------------------------------------------------------- the operations
\* start of a call: a retrieval of one parameter, timetable or catalog
Start(o) == Deliver(o, <<>>, <<>>, <<>>, None)

\* a call that answers at once, without any retrieval
Answer(value, exc, warns) ==
    Start(Outcome(IF exc = None THEN "return" ELSE "raise", value, exc, <<>>, <<>>, warns,
                  None, FALSE))

\* mutant of dataset_meta: the index nodes are deleted from the __dict__ of the
\* node, which is the meta
dataset_meta_in_place(node) ==
    [meta |-> [uid |-> node.uid, name |-> node.name, start_date |-> node.start_date,
               stop_date |-> node.stop_date, timeRestriction |-> node.timeRestriction],
     node |-> [node EXCEPT !.children = <<>>]]

\* the meta of get_dataset: a new dictionary of the attributes of the node that
\* are not index nodes; the node is left as it is
dataset_meta(node) ==
    [meta |-> [uid |-> node.uid, name |-> node.name, start_date |-> node.start_date,
               stop_date |-> node.stop_date, timeRestriction |-> node.timeRestriction],
     node |-> node]

\* get_dataset past its range check: name, meta and the parameters to fetch
get_dataset_fan_out(dataset_id, start, stop) ==
    LET node == Lookup(flat_inventory.datasets, to_xmlid(dataset_id))
        m == dataset_meta(node)
        meta == m.meta
    IN  /\ flat_inventory' = WithNode("datasets", m.node)
        /\ ds' = [dataset_id |-> to_xmlid(dataset_id), name |-> node.name, meta |-> meta,
                  start |-> start, stop |-> stop,
                  pending |-> list_parameters(flat_inventory, Str(to_xmlid(dataset_id))),
                  variables |-> <<>>]
        /\ pc' = "get_dataset"
        /\ fetches' = <<>>
        /\ requests' = <<>>
        /\ warnings' = <<>>
        /\ disable_proxy' = FALSE
        /\ dl' = None
        /\ result' = None
        /\ raised' = None
        /\ UNCHANGED <<curr_t, var, username, password, capabilities, max_chunk_size_days>>

\* mutant of do_get_dataset: the definition range is not checked
do_get_dataset_unchecked(dataset_id, start, stop) == get_dataset_fan_out(dataset_id, start, stop)

\* ImpexProvider.get_dataset up to the fan-out over its parameters
do_get_dataset(dataset_id, start, stop) ==
    LET ds_range == dataset_range(flat_inventory, dataset_id) IN
    IF ~intersect(ds_range, DateTimeRange(start, stop))
    THEN Answer(None, None, <<OutOfRangeWarning(dataset_id, ds_range)>>)
    ELSE get_dataset_fan_out(dataset_id, start, stop)

do_get_parameter(product, start_time, stop_time) ==
    \E outcome \in FetchOutcomes : Start(get_parameter_outcome(product, start_time, stop_time, outcome))

do_get_user_parameter(parameter_id, start_time, stop_time) ==
    \E outcome \in FetchOutcomes :
        Start(get_user_parameter_outcome(parameter_id, start_time, stop_time, outcome))

do_get_timetable(timetable_id, use_credentials) ==
    \E outcome \in FetchOutcomes : Start(dl_timetable(to_xmlid(timetable_id), use_credentials, outcome))

do_get_catalog(catalog_id, use_credentials) ==
    \E outcome \in FetchOutcomes : Start(dl_catalog(to_xmlid(catalog_id), use_credentials, outcome))

Call(name, product, range) == [name |-> name, product |-> product, range |-> range]

get_parameter ==
    /\ Idle
    /\ \E product \in ParameterInputs, r \in Ranges :
        /\ op' = Call("get_parameter", product, r)
        /\ do_get_parameter(product, r[1], r[2])

get_dataset ==
    /\ Idle
    /\ \E dataset_id \in DatasetInputs, r \in Ranges :
        /\ op' = Call("get_dataset", dataset_id, r)
        /\ do_get_dataset(dataset_id, r[1], r[2])

\* the comprehension of get_dataset: get_parameter for the next child
get_dataset_next ==
    /\ pc = "get_dataset"
    /\ ds.pending # <<>>
    /\ \E outcome \in FetchOutcomes :
        Deliver(get_parameter_outcome(Head(ds.pending), ds.start, ds.stop, outcome),
                fetches, requests, warnings, ds)
    /\ UNCHANGED op

\* get_dataset returns the Dataset built from the comprehension
get_dataset_return ==
    /\ pc = "get_dataset"
    /\ ds.pending = <<>>
    /\ result' = Dataset(ds.name, ds.variables, ds.meta)
    /\ pc' = "done"
    /\ ds' = None
    /\ UNCHANGED <<inventory_vars, op, dl, curr_t, var, fetches, requests, warnings,
                   disable_proxy, raised>>

get_user_parameter ==
    /\ Idle
    /\ \E parameter_id \in UserParameterInputs, r \in Ranges :
        /\ op' = Call("get_user_parameter", parameter_id, r)
        /\ do_get_user_parameter(parameter_id, r[1], r[2])

get_timetable ==
    /\ Idle
    /\ \E timetable_id \in TimetableInputs :
        /\ op' = Call("get_timetable", timetable_id, <<>>)
        /\ do_get_timetable(timetable_id, FALSE)

get_user_timetable ==
    /\ Idle
    /\ \E timetable_id \in TimetableInputs :
        /\ op' = Call("get_user_timetable", timetable_id, <<>>)
        /\ do_get_timetable(timetable_id, TRUE)

get_catalog ==
    /\ Idle
    /\ \E catalog_id \in CatalogInputs :
        /\ op' = Call("get_catalog", catalog_id, <<>>)
        /\ do_get_catalog(catalog_id, FALSE)

get_user_catalog ==
    /\ Idle
    /\ \E catalog_id \in CatalogInputs :
        /\ op' = Call("get_user_catalog", catalog_id, <<>>)
        /\ do_get_catalog(catalog_id, TRUE)

\* mutant of raise_unknown_product: None is returned instead
return_none_for_unknown_product(product) == Answer(None, None, <<>>)

\* raise ValueError(f"Unknown product: {product}")
raise_unknown_product(product) == Answer(None, UnknownProduct, <<>>)

\* ImpexProvider.get_data; range is <<>> when no start_time and stop_time are given
get_data ==
    /\ Idle
    /\ \E product \in DataInputs, r \in DataRanges :
        LET product_t == product_type(flat_inventory, product) IN
        /\ op' = Call("get_data", product, r)
        /\ IF product_t = "DATASET" /\ r # <<>>
           THEN do_get_dataset(product, r[1], r[2])
           ELSE IF product_t = "PARAMETER" /\ r # <<>>
           THEN IF is_user_product(product, flat_inventory.parameters)
                THEN do_get_user_parameter(product, r[1], r[2])
                ELSE do_get_parameter(product, r[1], r[2])
           ELSE IF product_t = "CATALOG"
           THEN do_get_catalog(product, is_user_product(product, flat_inventory.catalogs))
           ELSE IF product_t = "TIMETABLE"
           THEN do_get_timetable(product, is_user_product(product, flat_inventory.timetables))
           ELSE raise_unknown_product(product)

ImpexProductType(kind) == [type |-> "ImpexProductType", value |-> kind]

product_type_call ==
    /\ Idle
    /\ \E product \in Products :
        /\ op' = Call("product_type", product, <<>>)
        /\ Answer(ImpexProductType(product_type(flat_inventory, product)), None, <<>>)

find_parent_dataset_call ==
    /\ Idle
    /\ \E product \in Products :
        /\ op' = Call("find_parent_dataset", product, <<>>)
        /\ Answer(find_parent_dataset(flat_inventory, product), None, <<>>)

\* list_datasets, list_parameters, list_user_parameters, list_timetables,
\* list_user_timetables, list_catalogs, list_user_catalogs
list_products ==
    /\ Idle
    /\ \E name \in {"list_datasets", "list_parameters", "list_user_parameters",
                    "list_timetables", "list_user_timetables", "list_catalogs",
                    "list_user_catalogs"} :
       \E dataset_id \in {None} \cup (IF name = "list_parameters" THEN {Str("ds1"), DS2} ELSE {}) :
        LET mapping == CASE name = "list_datasets" -> flat_inventory.datasets
                         [] name \in {"list_parameters", "list_user_parameters"} ->
                                flat_inventory.parameters
                         [] name \in {"list_timetables", "list_user_timetables"} ->
                                flat_inventory.timetables
                         [] OTHER -> flat_inventory.catalogs
            \* the dataset nodes of the model carry no is_public: they are public
            keep(node) == IF "is_public" \notin DOMAIN node THEN TRUE
                          ELSE IF name \in {"list_user_parameters", "list_user_timetables",
                                            "list_user_catalogs"}
                          THEN is_private(node) ELSE is_public(node)
        IN  /\ op' = Call(name, dataset_id, <<>>)
            /\ Answer([type |-> "list",
                       items |-> IF dataset_id # None
                                 THEN list_parameters(flat_inventory, dataset_id)
                                 ELSE SelectSeq(mapping, keep)],
                      None, <<>>)

\* ------------------------------------------------------------ cache entries
\* _clweb_cache_entry_name: f"{prefix}/{product}/{start_time}", as its parts
_clweb_cache_entry_name(prefix, product, start_time, kwargs) ==
    [prefix |-> prefix, product |-> product, suffix |-> "", start_time |-> start_time]

\* _amda_cache_entry_name: f"{prefix}/{product}-cdf_istp/{start_time}" for the
\* output format cdf_istp in any case of the letters
_amda_cache_entry_name(prefix, product, start_time, kwargs) ==
    LET output_format == IF "output_format" \in DOMAIN kwargs THEN kwargs.output_format ELSE "csv"
        lower == CASE output_format = "CDF" -> "cdf"
                   [] output_format = "CDF_ISTP" -> "cdf_istp"
                   [] output_format = "ASCII" -> "ascii"
                   [] OTHER -> output_format
    IN  [prefix |-> prefix, product |-> product,
         suffix |-> IF lower = "cdf_istp" THEN "-cdf_istp" ELSE "", start_time |-> start_time]

\* the entry_name given to Cacheable by the _get_parameter of the provider
entry_name(product, start_time, kwargs) ==
    IF provider_name = "clweb"
    THEN _clweb_cache_entry_name("clweb", product, start_time, kwargs)
    ELSE _amda_cache_entry_name("amda", product, start_time, kwargs)

\* the cache entry names of two requests of _get_parameter, as the cache sees
\* them: product, start of the time fragment, output format
cache_entry_names ==
    /\ Idle
    /\ \E a, b \in [product : {"p1", "p2"}, fragment : {0, 1},
                    output_format : {"CDF", "CDF_ISTP", "ASCII"}] :
        /\ op' = [name |-> "cache_entry_names", product |-> None, range |-> <<>>,
                  cache_requests |-> <<a, b>>]
        /\ Answer([type |-> "entry_names",
                   names |-> <<entry_name(a.product, a.fragment, [output_format |-> a.output_format]),
                               entry_name(b.product, b.fragment, [output_format |-> b.output_format])>>],
                  None, <<>>)

\* ---------------------------------------------------------------------- CDF
\* an axis of a variable: its name and the shape of its values
VariableAxis(name, shape) == [type |-> "VariableAxis", name |-> name, shape |-> shape]

\* a SpeasyVariable as the CDF interfaces see it: name, axes, shape of the
\* values and the attributes that matter to the loader
CdfSpeasyVariable(name, axes, shape, var_type) ==
    [type |-> "SpeasyVariable", name |-> name, axes |-> axes, shape |-> shape,
     var_type |-> var_type]

\* variables loaded from an ISTP file, as in tests/test_cdf.py
CdfVariables ==
    {CdfSpeasyVariable("BGSEc", <<VariableAxis("Epoch", <<2>>)>>, <<2, 3>>, "data"),
     CdfSpeasyVariable("flux", <<VariableAxis("Epoch", <<2>>), VariableAxis("energy", <<2>>)>>,
                       <<2, 2>>, "data")}

\* _simplify_shape: a column of one component is written as a vector
_simplify_shape(shape) ==
    IF Len(shape) = 2 /\ shape[2] = 1 THEN <<shape[1]>> ELSE shape

\* _write_axis: cdf.add_variable of the values of the axis
_write_axis(ax) ==
    [name |-> ax.name, shape |-> _simplify_shape(ax.shape), depends |-> <<>>,
     var_type |-> "support_data"]

\* _write_variable: for each axis, _already_in_cdf gives the name of an equal
\* axis already saved (a string) or None; a new axis is written and named by
\* DEPEND_i; for a saved one "depends[...] = a.name" is evaluated on that
\* string, which raises AttributeError. Then the variable is written.
_write_variable(v, cdf, already_saved_axes) ==
    LET saved_before(index) ==
            \/ \E i \in DOMAIN already_saved_axes : already_saved_axes[i] = v.axes[index]
            \/ \E i \in 1..(index - 1) : v.axes[i] = v.axes[index]
        depends == [index \in DOMAIN v.axes |-> v.axes[index].name]
    IN  IF \E index \in DOMAIN v.axes : saved_before(index)
        THEN [exc |-> [type |-> "AttributeError"], cdf |-> cdf, axes |-> already_saved_axes]
        ELSE [exc |-> None,
              cdf |-> cdf \o [i \in DOMAIN v.axes |-> _write_axis(v.axes[i])]
                          \o <<[name |-> v.name, shape |-> _simplify_shape(v.shape),
                                depends |-> depends, var_type |-> v.var_type]>>,
              axes |-> already_saved_axes \o v.axes]

\* save_variables without a file: value is the bytes of the CDF, exc what is
\* raised; axes are the axes saved so far
RECURSIVE save_variables(_, _, _)
save_variables(variables, cdf, axes) ==
    IF variables = <<>> THEN [exc |-> None, value |-> [type |-> "bytes", cdf |-> cdf]]
    ELSE IF Head(variables).type # "SpeasyVariable"
    THEN [exc |-> [type |-> "ValueError", text |-> "Expected SpeasyVariable"], value |-> None]
    ELSE LET w == _write_variable(Head(variables), cdf, axes)
         IN  IF w.exc # None THEN [exc |-> w.exc, value |-> None]
             ELSE save_variables(Tail(variables), w.cdf, w.axes)

\* _load_variable(variable, loader); the loader is the ISTP view of a file:
\* its data variables, each with the axes its DEPEND_i attributes name
_load_variable(variable, loader) ==
    LET data_variables ==
            {loader.cdf[i].name : i \in {j \in DOMAIN loader.cdf : loader.cdf[j].var_type = "data"}}
        entry(name) == loader.cdf[CHOOSE i \in DOMAIN loader.cdf : loader.cdf[i].name = name]
        \* variable.replace('-', '_') and the CDA alternative on the names used
        replace_dash == IF variable = "B-x" THEN "B_x" ELSE variable
        alternative == IF variable = "B-x" THEN "B$x" ELSE variable
        found == IF variable \in data_variables THEN Str(variable)
                 ELSE IF replace_dash \in data_variables THEN Str(replace_dash)
                      ELSE IF alternative \in data_variables THEN Str(alternative)
                           ELSE None
    IN  IF loader = None \/ found = None THEN None
        ELSE LET e == entry(found.value)
             IN  CdfSpeasyVariable(e.name,
                                   [i \in DOMAIN e.depends |->
                                       VariableAxis(entry(e.depends[i]).name,
                                                    entry(e.depends[i]).shape)],
                                   e.shape, e.var_type)

\* load_variable(variable, file): _resolve_url_type makes bytes the buffer of
\* the loader
load_variable(variable, file) ==
    _load_variable(variable, IF file = None THEN None ELSE [type |-> "loader", cdf |-> file.cdf])

\* a call of _load_variable with keyword arguments: the function takes
\* variable and loader, any other keyword is a TypeError
call__load_variable(variable, kwargs) ==
    IF DOMAIN kwargs \subseteq {"loader"}
    THEN [exc |-> None,
          value |-> _load_variable(variable,
                                   IF "loader" \in DOMAIN kwargs THEN kwargs.loader ELSE None)]
    ELSE [exc |-> TypeError, value |-> None]

\* save_variables(variables), then one variable loaded back by name: with
\* load_variable(name, buffer) or, as tests/test_cdf.py does, with
\* _load_variable(name, buffer=...)
cdf_round_trip ==
    /\ Idle
    /\ \E variables \in {<<v>> : v \in CdfVariables}
                            \cup {<<p[1], p[2]>> : p \in {q \in CdfVariables \X CdfVariables : q[1] # q[2]}},
          route \in {"load_variable", "_load_variable"} :
       \E i \in DOMAIN variables :
          LET saved == save_variables(variables, <<>>, <<>>)
              buffer == saved.value
              r == IF saved.exc # None THEN saved
                   ELSE IF route = "load_variable"
                   THEN [exc |-> None, value |-> load_variable(variables[i].name, buffer)]
                   ELSE call__load_variable(variables[i].name, [buffer |-> buffer])
          IN  /\ op' = [name |-> "cdf_round_trip", product |-> None, range |-> <<>>,
                        variable |-> variables[i], route |-> route, saved |-> variables]
              /\ Answer(r.value, r.exc, <<>>)

\* save_variables(variables) of a list of up to two elements: variables, or
\* something that is no SpeasyVariable
cdf_save ==
    /\ Idle
    /\ \E variables \in LET E == CdfVariables \cup {Str("not a variable")}
                         IN  {<<>>} \cup {<<e>> : e \in E} \cup {<<p[1], p[2]>> : p \in E \X E} :
        LET saved == save_variables(variables, <<>>, <<>>) IN
        /\ op' = [name |-> "save_variables", product |-> None, range |-> <<>>,
                  variables |-> variables]
        /\ Answer(saved.value, saved.exc, <<>>)

\* ------------------------------------------- inventory of a CDF file
\* what cdf.data_variable(var_name) does for a data variable of the file: it
\* loads it, or raises IndexError or RuntimeError
LoadOutcomes == {"ok", "IndexError", "RuntimeError"}

\* extract_parameter: "except IndexError or RuntimeError" is
\* "except IndexError", the value of the expression
extract_parameter(cdf, var_name) ==
    LET loading == cdf[CHOOSE i \in DOMAIN cdf : cdf[i].name = var_name].loading IN
    IF loading = "ok"
    THEN [exc |-> None, value |-> ParameterIndex(var_name, var_name, TRUE, <<>>)]
    ELSE IF loading = "IndexError"
    THEN [exc |-> None, value |-> None]
    ELSE [exc |-> [type |-> loading], value |-> None]

\* _extract_parameters_impl: the indexes that are not None, for the data
\* variables of the file in order; an exception of extract_parameter ends it
_extract_parameters_impl(cdf) ==
    LET r == [i \in DOMAIN cdf |-> extract_parameter(cdf, cdf[i].name)]
        loaded(x) == x.value # None
        values(seq) == [i \in DOMAIN seq |-> seq[i].value]
    IN  IF \E i \in DOMAIN r : r[i].exc # None
        THEN [exc |-> r[Min({i \in DOMAIN r : r[i].exc # None})].exc, value |-> <<>>]
        ELSE [exc |-> None, value |-> values(SelectSeq(r, loaded))]

\* extract_parameters: RuntimeError is caught, the empty list is returned
extract_parameters(cdf) ==
    LET r == _extract_parameters_impl(cdf) IN
    IF r.exc = None THEN [exc |-> None, value |-> [type |-> "list", items |-> r.value]]
    ELSE IF r.exc.type = "RuntimeError"
    THEN [exc |-> None, value |-> [type |-> "list", items |-> <<>>]]
    ELSE [exc |-> r.exc, value |-> None]

\* make_dataset_index: RuntimeError is caught, None is returned
make_dataset_index(cdf, name, uid) ==
    LET r == _extract_parameters_impl(cdf) IN
    IF r.exc = None
    THEN [exc |-> None,
          value |-> [type |-> "DatasetIndex", uid |-> uid, name |-> name, children |-> r.value]]
    ELSE IF r.exc.type = "RuntimeError" THEN [exc |-> None, value |-> None]
    ELSE [exc |-> r.exc, value |-> None]

\* the extraction of the indexes of a file of two data variables
extract_inventory ==
    /\ Idle
    /\ \E first \in LoadOutcomes, second \in LoadOutcomes,
          name \in {"extract_parameter", "extract_parameters", "make_dataset_index"} :
        LET cdf == <<[name |-> "BGSEc", loading |-> first],
                     [name |-> "flux", loading |-> second]>>
            r == CASE name = "extract_parameter" -> extract_parameter(cdf, "BGSEc")
                   [] name = "extract_parameters" -> extract_parameters(cdf)
                   [] OTHER -> make_dataset_index(cdf, "ac_k2_mfi", "AC_K2_MFI")
        IN  /\ op' = [name |-> name, product |-> None, range |-> <<>>, cdf |-> cdf]
            /\ Answer(r.value, r.exc, <<>>)

\* ------------------------------------------------ concatenation of columns
\* the sub-variables load_variables may return for a product: a variable is
\* its time axis length, the shape (length, width) of its values and its column
\* labels; None stands for a sub-variable that could not be loaded
SubVariables ==
    LET Var(name, length, width, columns) ==
            [type |-> "SpeasyVariable", name |-> name, time_len |-> length,
             shape |-> <<length, width>>, columns |-> columns]
    IN  {None, Var("x", 1, 1, <<"x">>), Var("y", 2, 1, <<"y">>), Var("v", 1, 2, <<"v0", "v1">>)}

\* the dictionaries name -> sub-variable of up to two entries, as the sequence
\* of their items
ConcatInputs ==
    {<<>>} \cup {<<[name |-> "a", variable |-> v]>> : v \in SubVariables}
           \cup {<<[name |-> "a", variable |-> p[1]], [name |-> "b", variable |-> p[2]]>> :
                     p \in SubVariables \X SubVariables}

\* ImpexProvider._concatenate_variables: value is what it returns, exc what it
\* raises (None.values is an AttributeError, np.concatenate of arrays of
\* different lengths along axis 1 a ValueError)
_concatenate_variables(variables, product_id) ==
    LET n == Len(variables)
        first == variables[1].variable
        bad == {i \in 1..n : \/ variables[i].variable = None
                             \/ /\ first # None
                                /\ variables[i].variable.time_len # first.time_len}
        Raise(i) == [value |-> None,
                     exc |-> IF variables[i].variable = None
                             THEN [type |-> "AttributeError"]
                             ELSE [type |-> "ValueError",
                                   text |-> "all the input array dimensions must match"]]
        RECURSIVE width(_)
        width(i) == IF i = 0 THEN 0 ELSE width(i - 1) + variables[i].variable.shape[2]
    IN  IF n = 0 THEN [value |-> None, exc |-> None]
        ELSE IF n = 1
        THEN IF first = None THEN Raise(1)
             ELSE [value |-> [first EXCEPT !.name = product_id], exc |-> None]
        ELSE IF bad # {} THEN Raise(Min(bad))
        ELSE [value |-> [type |-> "SpeasyVariable", name |-> product_id,
                         time_len |-> first.time_len,
                         shape |-> <<first.shape[1], width(n)>>,
                         columns |-> [i \in 1..n |-> variables[i].name]],
              exc |-> None]

\* dl_parameter_chunk on the dictionary of several loaded sub-variables
concatenate_variables ==
    /\ Idle
    /\ \E variables \in ConcatInputs :
        LET r == _concatenate_variables(variables, "product") IN
        /\ op' = [name |-> "_concatenate_variables", product |-> None, range |-> <<>>,
                  variables |-> variables]
        /\ Answer(r.value, r.exc, <<>>)

\* a call of the client: the answers of the server are kept with the call
ClientCall(name, answers) == [name |-> name, product |-> None, range |-> <<>>, answers |-> answers]

\* the call of a list request: ImpexProvider.get_obs_data_tree and the like
do_get_tree(name, endpoint, use_credentials) ==
    \E first \in HttpAnswers, second \in {"ok", "http_error"} :
        LET r == client_get_list(endpoint, use_credentials, first, second) IN
        /\ op' = ClientCall(name, <<first, second>>)
        /\ Start(Outcome(IF r.exc = None THEN "return" ELSE "raise", r.value, r.exc,
                         <<>>, r.requests, <<>>, None, FALSE))

get_obs_data_tree == Idle /\ do_get_tree("get_obs_data_tree", "OBSTREE", FALSE)

get_timetables_tree == Idle /\ do_get_tree("get_timetables_tree", "LISTTT", FALSE)

get_catalogs_tree == Idle /\ do_get_tree("get_catalogs_tree", "LISTCAT", FALSE)

get_user_timetables_tree == Idle /\ do_get_tree("get_user_timetables_tree", "LISTTT", TRUE)

get_user_catalogs_tree == Idle /\ do_get_tree("get_user_catalogs_tree", "LISTCAT", TRUE)

\* an inventory refresh: build_inventory, build_private_inventory, then the
\* update of the flat inventory with the tree; a failed first request of the
\* obs data tree ends it
update_inventory ==
    /\ Idle
    /\ \E d \in RawDescriptions, first \in {"ok", "http_error"} :
        LET r == client_get_list("OBSTREE", FALSE, first, "ok")
            asked(endpoint, use_credentials) ==
                client_get_list(endpoint, use_credentials, "ok", "ok").requests
            root == build_private_inventory(
                        build_inventory(Namespace(provider_name, provider_name, <<>>), d,
                                        name_mapping, capabilities),
                        d, name_mapping, capabilities, credential_are_valid)
        IN  /\ op' = [name |-> "update_inventory", product |-> None, range |-> <<>>,
                      description |-> d, answers |-> <<first>>]
            /\ flat_inventory' = IF r.exc = None THEN update(root) ELSE flat_inventory
            /\ result' = IF r.exc = None THEN root ELSE None
            /\ raised' = r.exc
            /\ requests' =
                   IF r.exc # None THEN r.requests
                   ELSE r.requests
                        \o (IF is_capable("GETTT") THEN asked("LISTTT", FALSE) ELSE <<>>)
                        \o (IF is_capable("GETCAT") THEN asked("LISTCAT", FALSE) ELSE <<>>)
                        \o (IF credential_are_valid /\ is_capable("GETTT")
                            THEN asked("LISTTT", TRUE) ELSE <<>>)
                        \o (IF credential_are_valid /\ is_capable("GETCAT")
                            THEN asked("LISTCAT", TRUE) ELSE <<>>)
            /\ pc' = "done"
            /\ UNCHANGED <<username, password, capabilities, max_chunk_size_days, dl, curr_t,
                           var, ds, fetches, warnings, disable_proxy>>

\* ImpexClient.auth: a direct request
auth ==
    /\ Idle
    /\ \E answer \in HttpAnswers :
        /\ op' = ClientCall("auth", <<answer>>)
        /\ Start(Outcome("return", _send_request("AUTH", <<>>, answer), None,
                         <<>>, <<HttpGet("AUTH", <<>>)>>, <<>>, None, FALSE))

\* the caller has taken the result (or the exception) of the call: the log of
\* the call is dropped, the provider is ready for the next call
call_end ==
    /\ pc = "done"
    /\ pc' = "idle"
    /\ op' = None
    /\ dl' = None
    /\ curr_t' = 0
    /\ var' = None
    /\ ds' = None
    /\ fetches' = <<>>
    /\ requests' = <<>>
    /\ warnings' = <<>>
    /\ disable_proxy' = FALSE
    /\ result' = None
    /\ raised' = None
    /\ UNCHANGED inventory_vars

Next ==
    \/ call_end
    \/ get_parameter
    \/ get_dataset
    \/ get_dataset_next
    \/ get_dataset_return
    \/ dl_parameter_loop
    \/ dl_parameter_return
    \/ get_user_parameter
    \/ get_timetable
    \/ get_user_timetable
    \/ get_catalog
    \/ get_user_catalog
    \/ get_data
    \/ product_type_call
    \/ find_parent_dataset_call
    \/ list_products
    \/ get_obs_data_tree
    \/ get_timetables_tree
    \/ get_catalogs_tree
    \/ get_user_timetables_tree
    \/ get_user_catalogs_tree
    \/ auth
    \/ cache_entry_names
    \/ cdf_round_trip
    \/ cdf_save
    \/ extract_inventory
    \/ concatenate_variables
    \/ update_inventory

Spec == Init /\ [][Next]_vars

\* ------------------------------------------- the polling of _send_request
\* a client whose capabilities include GETSTATUS, besides the AMDA client
PollInit ==
    /\ capabilities \in {amda_capabilities, amda_capabilities \cup {"GETSTATUS"}}
    /\ username \in {"", "user"}
    /\ password \in {"", "secret"}
    /\ flat_inventory \in Inventories(provider_name, name_mapping, capabilities,
                                      credential_are_valid)
    /\ max_chunk_size_days \in (0 - MaxNegChunkDays)..MaxChunkDays
    /\ pc = "idle"
    /\ op = None
    /\ dl = None
    /\ curr_t = 0
    /\ var = None
    /\ ds = None
    /\ fetches = <<>>
    /\ requests = <<>>
    /\ warnings = <<>>
    /\ disable_proxy = FALSE
    /\ result = None
    /\ raised = None

\* status["dataFileURLs"] of the answer of GETSTATUS to the params js
StatusDataFileURLs(js) == [type |-> "url", endpoint |-> "GETSTATUS", params |-> js]

\* _send_request up to its first answer js: it returns at once, or enters the
\* "while True" loop when js says "in progress" and GETSTATUS is a capability;
\* job is the status of the request on the server, polls the number of
\* GETSTATUS requests made (counted up to MaxPolls)
send_request ==
    /\ Idle
    /\ \E endpoint \in {"GETPARAM", "GETTT", "GETCAT"}, answer \in HttpAnswers :
        LET params == [parameterID |-> "p1"] IN
        /\ op' = [name |-> "_send_request", product |-> None, range |-> <<>>,
                  answers |-> <<answer>>, endpoint |-> endpoint,
                  js |-> [success |-> TRUE, status |-> "in progress", id |-> endpoint],
                  job |-> "in progress", polls |-> 0]
        /\ requests' = <<HttpGet(endpoint, params)>>
        /\ IF answer = "in_progress" /\ is_capable("GETSTATUS")
           THEN /\ pc' = "polling"
                /\ result' = None
           ELSE /\ pc' = "done"
                /\ result' = _send_request(endpoint, params, answer)
        /\ UNCHANGED <<inventory_vars, dl, curr_t, var, ds, fetches, warnings,
                       disable_proxy, raised>>

\* the server ends the work on the request: from now on GETSTATUS says "done"
job_done ==
    /\ pc = "polling"
    /\ op.job = "in progress"
    /\ op' = [op EXCEPT !.job = "done"]
    /\ UNCHANGED <<inventory_vars, pc, dl, curr_t, var, ds, fetches, requests, warnings,
                   disable_proxy, result, raised>>

\* mutant of poll: the dataFileURLs of the first status answer are returned
poll_once ==
    /\ pc = "polling"
    /\ op' = [op EXCEPT !.polls = IF @ < MaxPolls THEN @ + 1 ELSE @]
    /\ requests' = IF op.polls < MaxPolls
                   THEN Append(requests, HttpGet("GETSTATUS", op.js)) ELSE requests
    /\ pc' = "done"
    /\ result' = StatusDataFileURLs(op.js)
    /\ UNCHANGED <<inventory_vars, dl, curr_t, var, ds, fetches, warnings,
                   disable_proxy, raised>>

\* one iteration of the "while True" loop: sleep, ask GETSTATUS with the first
\* answer as params, return the dataFileURLs of a status "done"
poll ==
    /\ pc = "polling"
    /\ op' = [op EXCEPT !.polls = IF @ < MaxPolls THEN @ + 1 ELSE @]
    /\ requests' = IF op.polls < MaxPolls
                   THEN Append(requests, HttpGet("GETSTATUS", op.js)) ELSE requests
    /\ IF op.job = "done"
       THEN /\ pc' = "done"
            /\ result' = StatusDataFileURLs(op.js)
       ELSE UNCHANGED <<pc, result>>
    /\ UNCHANGED <<inventory_vars, dl, curr_t, var, ds, fetches, warnings,
                   disable_proxy, raised>>

PollNext ==
    \/ send_request
    \/ job_done
    \/ poll
    \/ call_end

\* the thread in the loop keeps running: a poll that can be made is made
PollSpec == PollInit /\ [][PollNext]_vars /\ WF_vars(poll)

\* ------------------------------------------------------------ observations
RECURSIVE RequestsOf(_)
\* the requests sent by the chunk fetches fs, in order
RequestsOf(fs) == IF fs = <<>> THEN <<>> ELSE Head(fs).requests \o RequestsOf(Tail(fs))

\* the chunk fetches made by the dl_parameter call of arguments frame
FetchesOf(frame) == SelectSeq(fetches, LAMBDA f : f.dl = frame)

\* username or password is empty
CredsEmpty == username = "" \/ password = ""

CeilDiv(a, b) == (a + b - 1) \div b

\* the loop of the dl_parameter call in progress has ended
LoopEnded == pc \in {"done", "get_dataset"} \/ (pc = "dl_parameter" /\ curr_t >= dl.stop_time)

\* ------------------------------------------------------------------ claims
\* C1: when stop - start exceeds the chunk duration, the windows passed to
\* dl_parameter_chunk begin at start, each begins where the previous one ends,
\* every window but the last has the chunk duration; when the call has issued
\* them all there are ceil((stop-start)/max_chunk) of them, none is empty and
\* the last one ends at stop.
C1_ChunkWindows ==
    (dl # None /\ raised = None /\ dl.stop_time - dl.start_time > max_chunk_size_days) =>
        LET w == FetchesOf(dl)
            n == Len(w)
            dt == max_chunk_size_days
        IN  /\ n >= 1 => w[1].start_time = dl.start_time
            /\ \A i \in 1..(n - 1) :
                /\ w[i + 1].start_time = w[i].stop_time
                /\ w[i].stop_time - w[i].start_time = dt
            /\ LoopEnded =>
                /\ dt > 0
                /\ n = CeilDiv(dl.stop_time - dl.start_time, dt)
                /\ w[n].stop_time = dl.stop_time
                /\ \A i \in 1..n : w[i].start_time < w[i].stop_time

\* a call split in three windows, the last one shorter than the chunk duration
W_C1 ==
    /\ pc = "done" /\ op.name = "get_parameter" /\ raised = None /\ dl # None
    /\ Len(FetchesOf(dl)) = 3
    /\ fetches[3].stop_time - fetches[3].start_time < max_chunk_size_days
    /\ fetches[3].stop_time = op.range[2]

\* C2: when stop - start is at most the chunk duration, dl_parameter makes
\* exactly one call of dl_parameter_chunk, for the window (start, stop).
C2_SingleChunk ==
    (/\ dl # None
     /\ ~(dl.restricted_period /\ CredsEmpty)
     /\ dl.stop_time - dl.start_time <= max_chunk_size_days) =>
        LET w == FetchesOf(dl) IN
        /\ Len(w) = 1
        /\ w[1].start_time = dl.start_time
        /\ w[1].stop_time = dl.stop_time

\* a returned single-chunk call whose range is exactly the chunk duration
W_C2 ==
    /\ pc = "done" /\ op.name = "get_parameter" /\ dl # None /\ result # None
    /\ dl.stop_time - dl.start_time = max_chunk_size_days
    /\ Len(fetches) = 1

\* C3: dl_parameter called in restricted-period mode with an empty username or
\* password raises MissingCredentials, and it has made no chunk fetch and sent
\* no request before.
C3_RestrictedNoCredentials ==
    /\ dl # None => requests = RequestsOf(fetches)
    /\ (dl # None /\ dl.restricted_period /\ CredsEmpty) =>
        /\ pc = "done"
        /\ raised = MissingCredentials
        /\ result = None
        /\ FetchesOf(dl) = <<>>
        /\ op.name = "get_parameter" => (fetches = <<>> /\ requests = <<>>)

\* the exception raised for a restricted range that needs several chunks
W_C3 ==
    /\ raised = MissingCredentials /\ dl # None /\ dl.restricted_period
    /\ max_chunk_size_days > 0
    /\ dl.stop_time - dl.start_time > max_chunk_size_days

\* C4: every chunk fetch of a call in restricted-period mode made with valid
\* credentials is sent with the credentials (use_credentials true, userID and
\* password in the request), and the proxy is disabled for the call (stated
\* for the positive chunk durations).
C4_RestrictedFetchesUseCredentials ==
    /\ \A i \in 1..Len(fetches) :
        LET f == fetches[i] IN
        (f.dl.restricted_period /\ ~CredsEmpty /\ max_chunk_size_days > 0) =>
            /\ f.use_credentials
            /\ \A k \in 1..Len(f.requests) :
                f.requests[k].endpoint = "GETPARAM" =>
                    /\ "userID" \in DOMAIN f.requests[k].params
                    /\ "password" \in DOMAIN f.requests[k].params
    /\ (dl # None /\ dl.restricted_period) => disable_proxy

\* C5: a user-scoped request made with empty credentials raises
\* MissingCredentials and returns no data, whatever the time range.
C5_UserRequestsRaiseWithoutCredentials ==
    (/\ pc = "done"
     /\ op.name \in {"get_user_parameter", "get_user_timetable", "get_user_catalog"}
     /\ CredsEmpty) =>
        /\ raised = MissingCredentials
        /\ result = None

\* the uid named by a product argument
UidOf(product) == IF product.type = "str" THEN product.value ELSE product.uid

InMapping(mapping, product) == \E i \in 1..Len(mapping) : mapping[i].uid = UidOf(product)

\* the dataset node whose dates are the definition range of a product
DefinitionNode(product) ==
    LET D == flat_inventory.datasets IN
    IF InMapping(D, product)
    THEN D[CHOOSE i \in 1..Len(D) : D[i].uid = UidOf(product)]
    ELSE D[CHOOSE i \in 1..Len(D) :
               /\ Contains(D[i], UidOf(product))
               /\ \A j \in 1..(i - 1) : ~Contains(D[j], UidOf(product))]

\* the call in progress is a parameter or dataset request over a time range
RangeRequest ==
    /\ op # None
    /\ op.range # <<>>
    /\ \/ op.name \in {"get_parameter", "get_dataset"}
       \/ /\ op.name = "get_data"
          /\ \/ InMapping(flat_inventory.datasets, op.product)
             \/ /\ InMapping(flat_inventory.parameters, op.product)
                /\ \E i \in 1..Len(flat_inventory.parameters) :
                       /\ flat_inventory.parameters[i].uid = UidOf(op.product)
                       /\ flat_inventory.parameters[i].is_public

\* C6: a parameter or dataset request over a range that does not intersect the
\* definition range of the product returns None, emits one warning "outside
\* of its definition range", issues no fetch and raises nothing.
C6_OutsideDefinitionRange ==
    (/\ RangeRequest
     /\ \/ op.range[2] <= DefinitionNode(op.product).start_date
        \/ DefinitionNode(op.product).stop_date <= op.range[1]) =>
        /\ pc = "done"
        /\ result = None
        /\ raised = None
        /\ fetches = <<>>
        /\ requests = <<>>
        /\ Len(warnings) = 1
        /\ warnings[1].text = "outside of its definition range"

\* a dataset request that ends before the dataset begins
W_C6 ==
    /\ pc = "done" /\ op.name = "get_dataset"
    /\ op.range[2] < DefinitionNode(op.product).start_date
    /\ Len(warnings) = 1 /\ result = None

\* the product is in none of the five flat mappings
InNoMapping(product) ==
    /\ ~InMapping(flat_inventory.datasets, product)
    /\ ~InMapping(flat_inventory.parameters, product)
    /\ ~InMapping(flat_inventory.components, product)
    /\ ~InMapping(flat_inventory.timetables, product)
    /\ ~InMapping(flat_inventory.catalogs, product)

\* C7: get_data for an identifier that is in none of the flat mappings raises
\* ValueError "Unknown product" and no request is sent, with or without a
\* time range.
C7_UnknownProductFailsFast ==
    (op # None /\ op.name = "get_data" /\ InNoMapping(op.product)) =>
        /\ pc = "done"
        /\ raised = UnknownProduct
        /\ result = None
        /\ fetches = <<>>
        /\ requests = <<>>

\* an unknown id asked with a time range
W_C7 ==
    /\ pc = "done" /\ op.name = "get_data" /\ op.product = Str("nope") /\ op.range # <<>>
    /\ raised.type = "ValueError"

\* C8: product_type returns the kind of the first flat mapping, in the order
\* datasets, parameters, components, timetables, catalogs, that has the id, and
\* UNKNOWN exactly when none has it; a namespace node is UNKNOWN.
C8_ProductTypePrecedence ==
    (pc = "done" /\ op.name = "product_type") =>
        LET inD == InMapping(flat_inventory.datasets, op.product)
            inP == InMapping(flat_inventory.parameters, op.product)
            inC == InMapping(flat_inventory.components, op.product)
            inT == InMapping(flat_inventory.timetables, op.product)
            inK == InMapping(flat_inventory.catalogs, op.product)
            k == result.value
        IN  /\ raised = None
            /\ result.type = "ImpexProductType"
            /\ (k = "DATASET") <=> inD
            /\ (k = "PARAMETER") <=> (~inD /\ inP)
            /\ (k = "COMPONENT") <=> (~inD /\ ~inP /\ inC)
            /\ (k = "TIMETABLE") <=> (~inD /\ ~inP /\ ~inC /\ inT)
            /\ (k = "CATALOG") <=> (~inD /\ ~inP /\ ~inC /\ ~inT /\ inK)
            /\ (k = "UNKNOWN") <=> (~inD /\ ~inP /\ ~inC /\ ~inT /\ ~inK)
            /\ op.product.type = "SpeasyIndex" => k = "UNKNOWN"

\* the index of a parameter whose uid is also the uid of a dataset
W_C8 ==
    /\ pc = "done" /\ op.name = "product_type" /\ op.product = P1
    /\ InMapping(flat_inventory.datasets, P1) /\ InMapping(flat_inventory.parameters, P1)
    /\ result.value = "DATASET"

\* C9: find_parent_dataset returns the id itself for a dataset; for a parameter
\* or a component the uid of the first dataset of the flat mapping, in
\* insertion order, whose subtree contains the id, None if there is none; None
\* for a timetable, a catalog or an unknown id; it never raises.
C9_FindParentDataset ==
    (pc = "done" /\ op.name = "find_parent_dataset") =>
        LET D == flat_inventory.datasets
            id == UidOf(op.product)
        IN  /\ raised = None
            /\ IF InMapping(D, op.product) THEN result = Str(id)
               ELSE IF \/ InMapping(flat_inventory.parameters, op.product)
                       \/ InMapping(flat_inventory.components, op.product)
               THEN IF \E i \in 1..Len(D) : Contains(D[i], id)
                    THEN \E i \in 1..Len(D) :
                            /\ Contains(D[i], id)
                            /\ \A j \in 1..(i - 1) : ~Contains(D[j], id)
                            /\ result = Str(D[i].uid)
                    ELSE result = None
               ELSE result = None

\* a parameter that two datasets contain: the first one is returned
W_C9 ==
    /\ pc = "done" /\ op.name = "find_parent_dataset" /\ op.product = Str("p2")
    /\ Contains(flat_inventory.datasets[1], "p2") /\ Contains(flat_inventory.datasets[2], "p2")
    /\ result = Str(flat_inventory.datasets[1].uid)

\* C10: the Dataset returned by get_dataset has exactly one entry per child
\* parameter of the dataset, keyed by the display name of the parameter.
C10_DatasetHasOneEntryPerParameter ==
    (pc = "done" /\ op # None /\ op.name = "get_dataset" /\ result.type = "Dataset") =>
        LET children == DefinitionNode(op.product).children IN
        /\ Cardinality(DOMAIN result.variables) = Len(children)
        /\ \A i \in 1..Len(children) : children[i].name \in DOMAIN result.variables

\* the chunk fetches of fs that returned a variable
Succeeded(fs) == SelectSeq(fs, LAMBDA f : f.var # None)

RECURSIVE TimesOf(_)
\* the time axes of the variables returned by the fetches fs, one after the other
TimesOf(fs) == IF fs = <<>> THEN <<>> ELSE Head(fs).var.time \o TimesOf(Tail(fs))

\* the variable made of the successful chunks of fs in range order, None when
\* no chunk succeeded
MergedChunks(fs) ==
    LET S == Succeeded(fs) IN
    IF S = <<>> THEN None ELSE SpeasyVariable(S[1].var.name, TimesOf(S))

\* dl_parameter was called for a range that needs several chunks and passed
\* its credential test
InChunkLoop ==
    /\ dl # None
    /\ ~(dl.restricted_period /\ CredsEmpty)
    /\ dl.stop_time - dl.start_time > max_chunk_size_days

\* C11: in a multi-chunk dl_parameter call a chunk that yields None raises
\* nothing and does not stop the loop: every chunk is fetched, the accumulator
\* and the result are the successful chunks merged in range order, and the
\* result is None exactly when every chunk failed.
C11_FailedChunksAreSkipped ==
    InChunkLoop =>
        LET w == FetchesOf(dl) IN
        /\ raised = None
        /\ pc = "dl_parameter" => var = MergedChunks(w)
        /\ (pc = "done" /\ result.type # "Dataset") =>
            /\ result = MergedChunks(w)
            /\ (result = None) <=> (\A i \in 1..Len(w) : w[i].var = None)
        /\ (LoopEnded /\ max_chunk_size_days > 0) =>
            Len(w) = CeilDiv(dl.stop_time - dl.start_time, max_chunk_size_days)

\* three chunks, the second one failed: the result holds the other two
W_C11 ==
    /\ pc = "done" /\ op.name = "get_parameter" /\ InChunkLoop
    /\ Len(fetches) = 3
    /\ fetches[1].var # None /\ fetches[2].var = None /\ fetches[3].var # None
    /\ result = SpeasyVariable(fetches[1].var.name, fetches[1].var.time \o fetches[3].var.time)

\* C12: the fold of the chunk loop obeys merge(None, None) = None,
\* merge(None, x) = x and merge(x, None) = x: while no chunk has succeeded the
\* accumulator is None, and while one chunk has succeeded the accumulator is
\* that chunk itself, whatever failed chunks came before or after it.
C12_MergeIdentity ==
    (InChunkLoop /\ pc = "dl_parameter") =>
        LET S == Succeeded(FetchesOf(dl)) IN
        /\ Len(S) = 0 => var = None
        /\ Len(S) = 1 => var = S[1].var

\* a failed chunk, a successful one, a failed one: the accumulator is the second
W_C12 ==
    /\ pc = "dl_parameter" /\ InChunkLoop
    /\ Len(fetches) = 3
    /\ fetches[1].var = None /\ fetches[2].var # None /\ fetches[3].var = None
    /\ var = fetches[2].var

NonDecreasing(t) == \A i \in 1..(Len(t) - 1) : t[i] <= t[i + 1]

RECURSIVE SumOfLengths(_)
\* the sum of the lengths of the time axes returned by the fetches fs
SumOfLengths(fs) == IF fs = <<>> THEN 0 ELSE Len(Head(fs).var.time) + SumOfLengths(Tail(fs))

\* C13: merging appends the rows of the new chunk after the rows of the
\* accumulator without removing any: when no chunk of a multi-chunk call
\* failed, the time axis of the accumulator (and of the result) has the sum of
\* the lengths of the chunks, holds the chunks in range order and is
\* non-decreasing.
C13_MergeConcatenates ==
    (InChunkLoop /\ max_chunk_size_days > 0) =>
        LET w == FetchesOf(dl)
            acc == IF pc = "dl_parameter" THEN var ELSE result
        IN  (/\ Len(w) >= 1
             /\ \A i \in 1..Len(w) : w[i].var # None
             /\ pc = "dl_parameter" \/ (pc = "done" /\ result.type # "Dataset")) =>
                /\ acc # None
                /\ Len(acc.time) = SumOfLengths(w)
                /\ acc.time = TimesOf(w)
                /\ NonDecreasing(acc.time)

\* three successful chunks: the result holds their rows one after the other
W_C13 ==
    /\ pc = "done" /\ op.name = "get_parameter" /\ InChunkLoop
    /\ Len(fetches) = 3
    /\ \A i \in 1..3 : fetches[i].var # None
    /\ result.time = fetches[1].var.time \o fetches[2].var.time \o fetches[3].var.time
    /\ Len(result.time) = op.range[2] - op.range[1]

\* C14: the chunk loop issues its fetches one per step and in range order: a
\* step adds one fetch, which begins at the cursor, after the end of every
\* earlier chunk of the call, and its result is folded into the accumulator in
\* the same step, before the next fetch is issued.
C14_ChunksOneAtATime ==
    [][(pc = "dl_parameter" /\ fetches' # fetches) =>
          /\ Len(fetches') = Len(fetches) + 1
          /\ SubSeq(fetches', 1, Len(fetches)) = fetches
          /\ LET f == fetches'[Len(fetches')] IN
              /\ f.dl = dl
              /\ f.start_time = curr_t
              /\ max_chunk_size_days > 0 =>
                    \A i \in 1..Len(fetches) :
                        fetches[i].dl = dl => fetches[i].stop_time <= f.start_time
              /\ raised' = None => var' = merge(var, f.var)]_vars

\* two chunks fetched and folded, the third one not yet started
W_C14 ==
    /\ pc = "dl_parameter" /\ max_chunk_size_days > 0
    /\ Len(fetches) = 2 /\ fetches[1].dl = dl /\ fetches[2].dl = dl
    /\ fetches[1].var # None /\ fetches[2].var # None
    /\ var = merge(fetches[1].var, fetches[2].var)
    /\ curr_t = fetches[2].stop_time /\ curr_t < dl.stop_time

\* the requests reqs carry the credentials of the client
WithCredentials(reqs) ==
    \A k \in 1..Len(reqs) :
        reqs[k].endpoint \in {"GETPARAM", "GETTT", "GETCAT", "LISTTT", "LISTCAT", "OBSTREE"} =>
            /\ "userID" \in DOMAIN reqs[k].params
            /\ reqs[k].params.userID = username
            /\ reqs[k].params.password = password

\* the operations whose client request is made with use_credentials true
CredentialCalls ==
    {"get_user_timetable", "get_user_catalog", "get_user_timetables_tree", "get_user_catalogs_tree"}

\* C15: credential_are_valid holds exactly when username and password are both
\* non-empty; a client request made with use_credentials true calls
\* get_credentials first: with valid credentials the request carries the pair
\* (username, password), otherwise MissingCredentials is raised and no HTTP
\* request has been sent.
C15_CredentialsBeforeRequest ==
    /\ credential_are_valid <=> (username # "" /\ password # "")
    /\ (pc = "done" /\ op.name \in CredentialCalls) =>
        IF username # "" /\ password # ""
        THEN raised # MissingCredentials /\ requests # <<>> /\ WithCredentials(requests)
        ELSE raised = MissingCredentials /\ requests = <<>> /\ result = None
    /\ \A i \in 1..Len(fetches) :
        (fetches[i].use_credentials /\ fetches[i].dl.product_variables # <<>>) =>
            /\ username # "" /\ password # ""
            /\ fetches[i].requests # <<>>
            /\ WithCredentials(fetches[i].requests)

\* a user list request refused for a missing password
W_C15 ==
    /\ pc = "done" /\ op.name = "get_user_timetables_tree"
    /\ username # "" /\ password = ""
    /\ raised = MissingCredentials /\ requests = <<>>

\* the answer is a failure: a status other than 200 or a body that says no success
FailureAnswer(answer) ==
    \/ answer \in {"http_error", "not_success"}
    \/ answer = "in_progress" /\ ~is_capable("GETSTATUS")

\* C20: a client request whose answer is a failure (status other than 200, body
\* that is not a success answer) gives None and raises nothing, for a direct
\* request and for either step of an indirect request.
C20_FailedRequestGivesNone ==
    (pc = "done" /\ op # None /\ "answers" \in DOMAIN op /\ requests # <<>>) =>
        ((\E k \in 1..Len(op.answers) : FailureAnswer(op.answers[k])) =>
            /\ raised = None
            /\ result = None)

\* C18: the cache entry of a parameter fetch is determined by (provider,
\* product id, time fragment, output format): two requests of a provider that
\* differ in product, fragment or output format never have the same entry name.
C18_CacheEntryPerOutputFormat ==
    (pc = "done" /\ op.name = "cache_entry_names") =>
        (op.cache_requests[1] # op.cache_requests[2] => result.names[1] # result.names[2])

\* C19: a variable saved with save_variables and loaded back by name from the
\* produced buffer is not None and has the name, the number of axes and the
\* shape of the values of the original; nothing is raised.
C19_CdfRoundTrip ==
    (pc = "done" /\ op.name = "cdf_round_trip") =>
        /\ raised = None
        /\ result # None
        /\ result.name = op.variable.name
        /\ Len(result.axes) = Len(op.variable.axes)
        /\ result.shape = op.variable.shape

\* the typed nodes of a tree: those that belong to a flat mapping
RECURSIVE Reachable(_)
Reachable(nodes) ==
    IF nodes = <<>> THEN {}
    ELSE LET node == Head(nodes)
         IN  (IF MappingOf(node.type) = <<>> THEN {} ELSE {node})
                 \cup (IF "children" \in DOMAIN node THEN Reachable(node.children) ELSE {})
                 \cup Reachable(Tail(nodes))

FlatMappings == {"datasets", "parameters", "components", "timetables", "catalogs"}

Refreshed == pc = "done" /\ op.name = "update_inventory" /\ raised = None

RawDatasets(d) == d.obs_data_tree.children[1].children

\* C17: when two sibling elements of a description normalize to the same name,
\* the built inventory keeps both: each is below the dataset, with its display
\* name and its uid, and each uid is in the flat mapping of the parameters.
C17_NameCollisionKeepsBoth ==
    Refreshed =>
        \A k \in DOMAIN RawDatasets(op.description) :
            LET e == RawDatasets(op.description)[k] IN
            \A i \in DOMAIN e.children, j \in DOMAIN e.children :
                (i # j /\ fix_name(e.children[i].name) = fix_name(e.children[j].name)) =>
                    /\ HasKey(flat_inventory.parameters, e.children[i].xmlid)
                    /\ Lookup(flat_inventory.parameters, e.children[i].xmlid).name
                           = e.children[i].name
                    /\ HasKey(flat_inventory.datasets, e.xmlid)
                    /\ Contains(Lookup(flat_inventory.datasets, e.xmlid), e.children[i].xmlid)

\* the request of op is in a restricted period of its parent dataset: the
\* dataset exists, has a timeRestriction before its stop date, and the
\* interval between them intersects the requested range
InRestrictedPeriod ==
    LET parent == find_parent_dataset(flat_inventory, op.product) IN
    /\ parent # None
    /\ \E i \in 1..Len(flat_inventory.datasets) :
        LET d == flat_inventory.datasets[i] IN
        /\ d.uid = to_xmlid(parent)
        /\ d.timeRestriction # <<>>
        /\ d.timeRestriction[1] < d.stop_date
        /\ d.timeRestriction[1] < op.range[2]
        /\ op.range[1] < d.stop_date

\* the request of op ran restricted: restricted_period and disable_proxy were
\* passed down
RanRestricted ==
    /\ disable_proxy
    /\ dl # None => dl.restricted_period
    /\ \A i \in 1..Len(fetches) : fetches[i].dl.restricted_period

RanUnrestricted ==
    /\ ~disable_proxy
    /\ dl # None => ~dl.restricted_period
    /\ \A i \in 1..Len(fetches) : ~fetches[i].dl.restricted_period

\* C21 (as stated): a get_parameter request runs restricted (restricted_period
\* and disable_proxy passed down) exactly when its parent dataset exists, has a
\* timeRestriction before its stop date, and the interval between them
\* intersects the requested range; it runs unrestricted otherwise.
C21_RestrictedExactlyWhenDeclared ==
    (pc # "idle" /\ op.name = "get_parameter") =>
        IF InRestrictedPeriod THEN RanRestricted ELSE RanUnrestricted

\* C21 (amended): with a provider that defines has_time_restriction (AMDA) a
\* get_parameter request runs restricted exactly when its parent dataset exists,
\* has a timeRestriction before its stop date, and the interval between them
\* intersects the requested range; with a provider that does not define it
\* (ClWebservice) every request runs unrestricted.
C21_RestrictedWhenProviderChecks ==
    (pc # "idle" /\ op.name = "get_parameter") =>
        IF provider_name = "amda" /\ InRestrictedPeriod THEN RanRestricted ELSE RanUnrestricted

\* a restricted request that got its data, with valid credentials
W_C21 ==
    /\ pc = "done" /\ op.name = "get_parameter"
    /\ InRestrictedPeriod /\ RanRestricted
    /\ result # None /\ Len(fetches) > 0

\* the tree of the public pass of the refresh of op
PublicTree ==
    build_inventory(Namespace(provider_name, provider_name, <<>>), op.description,
                    name_mapping, capabilities)

\* the uids of the children of a node, and its child of a uid
ChildUids(node) == {node.children[i].uid : i \in DOMAIN node.children}

ChildOf(node, uid) == node.children[CHOOSE i \in DOMAIN node.children : node.children[i].uid = uid]

\* a tree without the subtrees of the private pass
WithoutPrivate(node) ==
    LET Private == {"MyTimeTables", "MyCatalogs", "DerivedParameters"}
        IsPublic(n) == n.uid \notin Private
        Pruned(n) == IF n.type = "SpeasyIndex"
                     THEN [n EXCEPT !.children = SelectSeq(@, IsPublic)]
                     ELSE n
        kept == SelectSeq(node.children, IsPublic)
    IN  [node EXCEPT !.children = [i \in DOMAIN kept |-> Pruned(kept[i])]]

C23_KnownProductsAreDispatched ==
    (pc # "idle" /\ op.name = "get_data" /\ op.range # <<>>) =>
        (raised = UnknownProduct <=> InNoMapping(op.product))

\* the retrieval and lookup operations
ReadOperations ==
    {"get_data", "get_parameter", "get_user_parameter", "get_dataset", "get_timetable",
     "get_user_timetable", "get_catalog", "get_user_catalog", "product_type",
     "find_parent_dataset", "list_datasets", "list_parameters", "list_user_parameters",
     "list_timetables", "list_user_timetables", "list_catalogs", "list_user_catalogs"}

\* C24: no step of a retrieval or lookup operation (get_data, get_parameter,
\* get_dataset, get_timetable, get_catalog, product_type, find_parent_dataset,
\* list_*) changes a flat mapping or an index node of the flat inventory, the
\* steps that copy the attributes of a node into the meta of the returned
\* Dataset, time table or catalog included.
C24_RetrievalLeavesInventory ==
    [][(pc' # "idle" /\ op'.name \in ReadOperations) => flat_inventory' = flat_inventory]_vars

\* a dataset returned with the attributes of its node, the node being in the
\* flat inventory with its parameters as before
W_C24 ==
    /\ pc = "done" /\ result # None
    /\ op.name = "get_dataset"
    /\ result.type = "Dataset"
    /\ result.meta.uid = to_xmlid(op.product)
    /\ Lookup(flat_inventory.datasets, result.meta.uid).children # <<>>

\* C25: _concatenate_variables returns None for no input and, for one input, a
\* copy of it named by the product id; for several inputs it returns a Variable
\* only when none is missing and all have the same time axis length, and then
\* the result has that length as its leading dimension, the sum of the widths of
\* the inputs as its width and one column label per value column.
C25_ConcatenationIsAligned ==
    (pc = "done" /\ op.name = "_concatenate_variables") =>
        LET inputs == op.variables
            n == Len(inputs)
            Missing == \E i \in 1..n : inputs[i].variable = None
            SameLength == \A i, j \in 1..n :
                              inputs[i].variable.time_len = inputs[j].variable.time_len
            RECURSIVE Sum(_)
            Sum(i) == IF i = 0 THEN 0 ELSE Sum(i - 1) + inputs[i].variable.shape[2]
        IN  /\ n = 0 => (result = None /\ raised = None)
            /\ (n = 1 /\ ~Missing) =>
                   result = [inputs[1].variable EXCEPT !.name = "product"]
            /\ (Missing \/ ~SameLength) => result = None
            /\ (n > 1 /\ result # None) =>
                /\ result.time_len = inputs[1].variable.time_len
                /\ result.shape = <<result.time_len, Sum(n)>>
                /\ Len(result.columns) = result.shape[2]

\* C26: the server returning for each chunk the samples of its window [a, b)
\* in increasing order, the Variable returned by a retrieval over [start, stop)
\* has a strictly increasing time axis, every time t of it has
\* start <= t < stop, and it has as many rows of values as times, whether the
\* range was fetched at once or in several chunks.
C26_ReturnedVariableInRange ==
    (/\ pc = "done"
     /\ op.name \in {"get_parameter", "get_user_parameter", "get_data"}
     /\ result.type = "SpeasyVariable") =>
        /\ \A i, j \in 1..Len(result.time) : i < j => result.time[i] < result.time[j]
        /\ \A i \in 1..Len(result.time) :
               op.range[1] <= result.time[i] /\ result.time[i] < op.range[2]
        /\ Len(result.values) = Len(result.time)

\* a variable returned from the chunks of a range whose last chunk is shorter
\* than the others
W_C26 ==
    /\ pc = "done" /\ op.name = "get_parameter" /\ result.type = "SpeasyVariable"
    /\ Len(fetches) >= 2
    /\ max_chunk_size_days > 1
    /\ fetches[Len(fetches)].stop_time - fetches[Len(fetches)].start_time < max_chunk_size_days
    /\ Len(result.time) = op.range[2] - op.range[1]

\* C27: for every chunk size the constructor accepts, zero and negative sizes
\* included, every iteration of the chunk loop of dl_parameter moves the cursor
\* strictly forward, so that the loop ends after finitely many chunk fetches.
C27_ChunkCursorAdvances ==
    [][(/\ pc = "dl_parameter" /\ pc' = "dl_parameter"
        /\ Len(fetches') = Len(fetches) + 1) => curr_t' > curr_t]_vars

\* the call of _send_request got "in progress" as its first answer
InProgressCall ==
    /\ pc # "idle" /\ op.name = "_send_request"
    /\ op.answers = <<"in_progress">>

C29_SharedAxesAreSavedOnce ==
    (pc = "done" /\ op.name = "save_variables") =>
        LET variables == op.variables
            AllVariables == \A i \in DOMAIN variables : variables[i].type = "SpeasyVariable"
        IN  /\ ~AllVariables =>
                   /\ raised = [type |-> "ValueError", text |-> "Expected SpeasyVariable"]
                   /\ result = None
            /\ AllVariables =>
                   /\ raised = None
                   /\ result.type = "bytes"
                   /\ \A i, j \in DOMAIN result.cdf :
                          result.cdf[i].name = result.cdf[j].name => i = j
                   /\ \A i \in DOMAIN variables :
                          \E k \in DOMAIN result.cdf :
                              /\ result.cdf[k].name = variables[i].name
                              /\ Len(result.cdf[k].depends) = Len(variables[i].axes)
                              /\ \A n \in DOMAIN variables[i].axes :
                                     /\ result.cdf[k].depends[n] = variables[i].axes[n].name
                                     /\ \E m \in DOMAIN result.cdf :
                                            result.cdf[m].name = variables[i].axes[n].name

\* C30: when the indexes of the parameters of a CDF file are extracted, a
\* variable whose loading fails with IndexError or RuntimeError is skipped:
\* extract_parameter returns None and raises nothing, and extract_parameters
\* and make_dataset_index still return the indexes of all the other data
\* variables.
C30_FailingVariablesAreSkipped ==
    (pc = "done" /\ "cdf" \in DOMAIN op) =>
        LET ok(x) == x.loading = "ok"
            loadable == SelectSeq(op.cdf, ok)
            expected == [i \in DOMAIN loadable |->
                            ParameterIndex(loadable[i].name, loadable[i].name, TRUE, <<>>)]
        IN  /\ raised = None
            /\ (op.name = "extract_parameter" /\ op.cdf[1].loading # "ok") => result = None
            /\ op.name = "extract_parameters" => result.items = expected
            /\ op.name = "make_dataset_index" =>
                   (result # None /\ result.children = expected)

====
